---- MODULE Spec2Model ----
(***************************************************************************)
(* Model of the video player: the session (VideoProvider), the auto-advance *)
(* countdown of UnifiedPlayer, the YouTube IFrame API loader, and one       *)
(* mounted YouTubePlayer with its backend (media element or widget), its    *)
(* timers, its transport and volume controls and its gestures.              *)
(***************************************************************************)
EXTENDS Integers, Sequences, FiniteSets, TLC

(* ------------------------------------------------------------------ *)
(* Bounds                                                               *)
(* ------------------------------------------------------------------ *)

\* Size of the pool of interval handles the browser can hand out.
MaxTimerId == 3

\* Number of call sites that may call loadYouTubeIframeApi.
NumCallers == 2

\* Number of loader attempts (promise constructions) explored.
MaxAttempts == 3

\* Number of skip-pulse timeouts that may be pending at once.
MaxPulse == 1

\* Number of instants, TapGap apart, at which taps are explored.
MaxTicks == 3

\* Date.now() when the page is loaded, in milliseconds
StartClock == 1000

(* ------------------------------------------------------------------ *)
(* Data set: categories with ordered contents                           *)
(* ------------------------------------------------------------------ *)

Null == "null"

\* videos.json as consumed by VideoFeed: category slug -> ordered slugs.
CategoryContents == [c1 |-> <<"A", "B", "C">>, c2 |-> <<"D">>]

CategorySlugs == DOMAIN CategoryContents

SeqRange(s) == {s[i] : i \in DOMAIN s}

\* The (video, category) pairs a feed card can pass to openVideo.
FeedCards == {vc \in (UNION {SeqRange(CategoryContents[c]) : c \in CategorySlugs}) \X CategorySlugs :
                 vc[1] \in SeqRange(CategoryContents[vc[2]])}

\* mediaType of each video: "MP4" plays in the <video> element, "YOUTUBE" is
\* embedded media.
MediaType == [A |-> "MP4", B |-> "YOUTUBE", C |-> "YOUTUBE", D |-> "MP4"]

\* length of every video, in seconds
VideoDuration == 20

\* null value of nextVideoRef
NoNext == [video |-> Null, category |-> Null]

TimerIds == 1..MaxTimerId

\* null value of swipeStartY
NoTouch == -1

\* deltaY beyond which a wheel event shows or hides the related list
WheelThreshold == 24

\* vertical travel beyond which a swipe shows or hides the related list
SwipeThreshold == 60

\* deltaY values of wheel events: both thresholds, one unit either side, both directions
WheelDeltas == {-61, -60, -25, -24, 0, 24, 25, 60, 61}

\* clientY values of touches; their differences cover 0, 1, 59, 60, 61 and 121
TouchYs == {0, 60, 61, 121}

VARIABLES
  currentVideo,          \* VideoProvider state
  currentCategory,
  isPlayerOpen,
  isMinimized,
  listVisible,           \* UnifiedPlayer state
  swipeStartY,           \* Null or the clientY where the touch began
  showCountdown,
  countdown,
  countdownValueRef,
  countdownIntervalRef,  \* 0 = null, otherwise an interval handle
  nextVideoRef,
  liveIntervals,         \* interval handles the browser will still fire
  hist,                  \* history: the last operation and what it saw
  ytState,               \* window.YT: "absent", "noPlayer" or "ready" (YT.Player defined)
  youtubeApiPromise,     \* 0 = null, otherwise the attempt whose promise is shared
  attempts,              \* per promise executor run: settled, outcome, timeoutLive
  readyChain,            \* window.onYouTubeIframeAPIReady: attempts it calls, oldest first
  readyPending,          \* the API script has run and has yet to call the ready callback
  previousReadyRan,      \* the ready callback the page had before the loader's has been invoked
  scriptTags,            \* script elements with id "youtube-iframe-api" in the document
  scriptState,           \* "none", "loading", "loaded" or "failed"
  scriptOwner,           \* attempt whose rejectLoad is the element's onerror
  held,                  \* per call site: the promise the last loader call returned
  useCustomPlayerForYouTube, \* VideoProvider: playback mode of YouTube media
  loadPromise,           \* mounted YouTubePlayer: "none", "pending" or "settled" loader promise
  youtubePlayerRef,      \* "null", "created" (widget constructed) or "ready" (onReady ran)
  widgets,               \* widget instances of this mount that are not destroyed
  youtubeTickRef,        \* TRUE when the ref holds a poll interval handle
  tickers,               \* live poll intervals of this mount
  nativeListeners,       \* the native effect's listeners are attached
  staleThen,             \* a torn-down mount's loader callback is still outstanding
  staleWidgets,          \* a torn-down mount left a widget that is not destroyed
  staleTickers,          \* a torn-down mount left a live poll interval
  staleListeners,        \* a torn-down mount left native listeners attached
  isReady,               \* adapter state of the mounted YouTubePlayer
  isYouTubeReady,
  videoError,            \* TRUE when videoError holds a message
  isPlaying,
  currentTime,
  duration,
  volume,                \* in percent: volume * 100
  isMuted,
  skipAnim,              \* "none", "fwd" or "back"
  backendTime,           \* media element / widget: current position
  backendDuration,       \* 0 until the metadata is known
  backendPlaying,
  backendVolume,
  backendMuted,
  pulseTimers,           \* pending 400 ms skip-pulse timeouts of this mount
  stalePulse,            \* a torn-down mount left a pending skip-pulse timeout
  lastTeardown,          \* history: what the last teardown found and left behind
  clock,                 \* Date.now(), in milliseconds
  lastTapAtRef,
  lastTapSideRef,        \* "null", "left" or "right"
  dblClickDue,           \* side of a dblclick event the browser has yet to dispatch
  tapHist                \* history: the last two taps and the skips they caused

sessionVars == <<currentVideo, currentCategory, isPlayerOpen, isMinimized>>

countdownVars == <<showCountdown, countdown, countdownValueRef,
                   countdownIntervalRef, nextVideoRef, liveIntervals>>

listVars == <<listVisible, swipeStartY>>

playerVars == <<sessionVars, listVars, countdownVars, hist>>

loaderVars == <<ytState, youtubeApiPromise, attempts, readyChain, readyPending, previousReadyRan,
                scriptTags, scriptState, scriptOwner, held>>

mountVars == <<loadPromise, youtubePlayerRef, widgets, youtubeTickRef, tickers,
               nativeListeners, staleThen, staleWidgets, staleTickers, staleListeners>>

adapterVars == <<isReady, isYouTubeReady, videoError, isPlaying, currentTime,
                 duration, volume, isMuted, skipAnim>>

backendVars == <<backendTime, backendDuration, backendPlaying, backendVolume, backendMuted>>

pulseVars == <<pulseTimers, stalePulse>>

tapVars == <<lastTapAtRef, lastTapSideRef, dblClickDue, tapHist>>

\* everything that belongs to one mounted YouTubePlayer
instanceVars == <<mountVars, adapterVars, backendVars, pulseVars, tapVars, lastTeardown>>

(* ------------------------------------------------------------------ *)
(* VideoProvider                                                        *)
(* ------------------------------------------------------------------ *)

\* a relatedVideos that does not filter out the current video
RelatedOf_KeepsCurrent(video, category) ==
  IF category = Null THEN <<>> ELSE CategoryContents[category]

\* relatedVideos: the current category's contents without the current slug
RelatedOf(video, category) ==
  IF category = Null THEN <<>>
  ELSE SelectSeq(CategoryContents[category], LAMBDA v : v # video)

relatedVideos == RelatedOf(currentVideo, currentCategory)

\* UnifiedPlayer renders (and mounts YouTubePlayer) only with a current video
PlayerRendered == currentVideo # Null /\ currentCategory # Null

Hist(op) == [op |-> op, wasActive |-> showCountdown, prevVideo |-> currentVideo]

\* an openVideo that forgets setIsMinimized(false)
openVideo_KeepMinimized(video, category) ==
  /\ currentVideo' = video
  /\ currentCategory' = category
  /\ isPlayerOpen' = TRUE
  /\ UNCHANGED isMinimized

openVideo(video, category) ==
  /\ currentVideo' = video
  /\ currentCategory' = category
  /\ isPlayerOpen' = TRUE
  /\ isMinimized' = FALSE

\* a closeVideo that leaves the category in place
closeVideo_KeepCategory ==
  /\ isPlayerOpen' = FALSE
  /\ isMinimized' = FALSE
  /\ currentVideo' = Null
  /\ UNCHANGED currentCategory

closeVideo ==
  /\ isPlayerOpen' = FALSE
  /\ isMinimized' = FALSE
  /\ currentVideo' = Null
  /\ currentCategory' = Null

\* a selectVideo that brings the player back to full size
selectVideo_Restores(video, category) ==
  /\ currentVideo' = video
  /\ currentCategory' = category
  /\ isMinimized' = FALSE
  /\ UNCHANGED isPlayerOpen

selectVideo(video, category) ==
  /\ currentVideo' = video
  /\ currentCategory' = category
  /\ UNCHANGED <<isPlayerOpen, isMinimized>>

minimizePlayer ==
  /\ isMinimized' = TRUE
  /\ UNCHANGED <<currentVideo, currentCategory, isPlayerOpen>>

restorePlayer ==
  /\ isMinimized' = FALSE
  /\ UNCHANGED <<currentVideo, currentCategory, isPlayerOpen>>

\* a closeMiniPlayer that leaves the video and category in place
closeMiniPlayer_KeepVideo ==
  /\ isMinimized' = FALSE
  /\ isPlayerOpen' = FALSE
  /\ UNCHANGED <<currentVideo, currentCategory>>

closeMiniPlayer ==
  /\ isMinimized' = FALSE
  /\ isPlayerOpen' = FALSE
  /\ currentVideo' = Null
  /\ currentCategory' = Null

(* ------------------------------------------------------------------ *)
(* UnifiedPlayer: auto-advance countdown                                *)
(* ------------------------------------------------------------------ *)

\* clearInterval(handle): the handle stops firing
ClearInterval(live, handle) == live \ {handle}

\* setInterval: the browser hands out a handle that is not live
FreshTimer(live) == CHOOSE t \in TimerIds \ live : \A u \in TimerIds \ live : t <= u

CanSetInterval == \E t \in TimerIds : t \notin liveIntervals \ {countdownIntervalRef}

\* the effect body forgets to store the new handle in countdownIntervalRef
CountdownEffect_RefNotStored(prevShow, newShow, ref, live) ==
  IF prevShow = newShow THEN [ref |-> ref, live |-> live]
  ELSE IF newShow
    THEN LET cleared == IF ref # 0 THEN ClearInterval(live, ref) ELSE live
             t == FreshTimer(cleared)
         IN [ref |-> ref, live |-> cleared \cup {t}]
    ELSE IF ref # 0 THEN [ref |-> 0, live |-> ClearInterval(live, ref)]
         ELSE [ref |-> ref, live |-> live]

\* useEffect(..., [showCountdown, selectVideo]): React runs the previous
\* cleanup and then the body whenever showCountdown changed in a render.
CountdownEffect(prevShow, newShow, ref, live) ==
  IF prevShow = newShow THEN [ref |-> ref, live |-> live]
  ELSE IF newShow
    THEN LET cleared == IF ref # 0 THEN ClearInterval(live, ref) ELSE live
             t == FreshTimer(cleared)
         IN [ref |-> t, live |-> cleared \cup {t}]
    ELSE IF ref # 0 THEN [ref |-> 0, live |-> ClearInterval(live, ref)]
         ELSE [ref |-> ref, live |-> live]

\* a cancel that forgets nextVideoRef.current = null
cancelCountdown_KeepPending ==
  LET live1 == IF countdownIntervalRef # 0
                 THEN ClearInterval(liveIntervals, countdownIntervalRef)
                 ELSE liveIntervals
      eff == CountdownEffect(showCountdown, FALSE, 0, live1)
  IN /\ showCountdown' = FALSE
     /\ countdown' = 2
     /\ countdownValueRef' = 2
     /\ nextVideoRef' = nextVideoRef
     /\ countdownIntervalRef' = eff.ref
     /\ liveIntervals' = eff.live

cancelCountdown ==
  LET live1 == IF countdownIntervalRef # 0
                 THEN ClearInterval(liveIntervals, countdownIntervalRef)
                 ELSE liveIntervals
      eff == CountdownEffect(showCountdown, FALSE, 0, live1)
  IN /\ showCountdown' = FALSE
     /\ countdown' = 2
     /\ countdownValueRef' = 2
     /\ nextVideoRef' = NoNext
     /\ countdownIntervalRef' = eff.ref
     /\ liveIntervals' = eff.live

\* an ended handler that starts a further interval on every call
handleEnded_Stacking ==
  IF currentCategory = Null \/ Len(relatedVideos) = 0
    THEN UNCHANGED <<sessionVars, listVars, countdownVars>>
    ELSE LET t == IF TimerIds \ liveIntervals = {} THEN countdownIntervalRef
                  ELSE FreshTimer(liveIntervals)
         IN /\ nextVideoRef' = [video |-> relatedVideos[1], category |-> currentCategory]
            /\ showCountdown' = TRUE
            /\ countdown' = 2
            /\ countdownValueRef' = 2
            /\ countdownIntervalRef' = t
            /\ liveIntervals' = liveIntervals \cup {t}
            /\ UNCHANGED <<sessionVars, listVars>>

\* an ended handler that starts the countdown without recording what is next
handleEnded_NoPending ==
  IF currentCategory = Null \/ Len(relatedVideos) = 0
    THEN UNCHANGED <<sessionVars, listVars, countdownVars>>
    ELSE LET eff == CountdownEffect(showCountdown, TRUE, countdownIntervalRef, liveIntervals)
         IN /\ nextVideoRef' = nextVideoRef
            /\ showCountdown' = TRUE
            /\ countdown' = 2
            /\ countdownValueRef' = 2
            /\ countdownIntervalRef' = eff.ref
            /\ liveIntervals' = eff.live
            /\ UNCHANGED <<sessionVars, listVars>>

\* onEnded of the mounted YouTubePlayer
handleEnded ==
  IF currentCategory = Null \/ Len(relatedVideos) = 0
    THEN UNCHANGED <<sessionVars, listVars, countdownVars>>
    ELSE LET eff == CountdownEffect(showCountdown, TRUE, countdownIntervalRef, liveIntervals)
         IN /\ nextVideoRef' = [video |-> relatedVideos[1], category |-> currentCategory]
            /\ showCountdown' = TRUE
            /\ countdown' = 2
            /\ countdownValueRef' = 2
            /\ countdownIntervalRef' = eff.ref
            /\ liveIntervals' = eff.live
            /\ UNCHANGED <<sessionVars, listVars>>

\* a related-list click that switches without cancelling the countdown
handleRelatedSelect_NoCancel(video) ==
  IF currentCategory = Null
    THEN UNCHANGED <<sessionVars, listVars, countdownVars>>
    ELSE /\ selectVideo(video, currentCategory)
         /\ UNCHANGED <<listVars, countdownVars>>

handleRelatedSelect(video) ==
  IF currentCategory = Null
    THEN UNCHANGED <<sessionVars, listVars, countdownVars>>
    ELSE /\ cancelCountdown
         /\ selectVideo(video, currentCategory)
         /\ UNCHANGED listVars

\* a countdown that expires one tick late
ExpiresAt_Late(nextValue) == nextValue < 0

\* if (nextValue <= 0)
ExpiresAt(nextValue) == nextValue <= 0

\* the setInterval callback of the countdown effect
countdownTick ==
  LET nextValue == countdownValueRef - 1 IN
  IF ExpiresAt(nextValue)
    THEN LET next == nextVideoRef
             live1 == IF countdownIntervalRef # 0
                        THEN ClearInterval(liveIntervals, countdownIntervalRef)
                        ELSE liveIntervals
             eff == CountdownEffect(showCountdown, FALSE, 0, live1)
         IN /\ IF next # NoNext
                 THEN selectVideo(next.video, next.category)
                 ELSE UNCHANGED sessionVars
            /\ nextVideoRef' = NoNext
            /\ countdownValueRef' = 2
            /\ showCountdown' = FALSE
            /\ countdown' = 2
            /\ countdownIntervalRef' = eff.ref
            /\ liveIntervals' = eff.live
            /\ UNCHANGED listVars
    ELSE /\ countdownValueRef' = nextValue
         /\ countdown' = nextValue
         /\ UNCHANGED <<sessionVars, listVars, showCountdown,
                        countdownIntervalRef, nextVideoRef, liveIntervals>>

(* ------------------------------------------------------------------ *)
(* YouTubePlayer: mode selection and mount lifecycle                    *)
(* ------------------------------------------------------------------ *)

\* key of the YouTubePlayer element; NoMount while UnifiedPlayer renders null
NoMount == <<Null, FALSE>>

KeyOf(video, category, custom) ==
  IF video # Null /\ category # Null THEN <<video, custom>> ELSE NoMount

\* A key that also names the layout: every minimize or restore would remount.
MountKey_PerLayout ==
  IF KeyOf(currentVideo, currentCategory, useCustomPlayerForYouTube) = NoMount
  THEN NoMount
  ELSE <<currentVideo, useCustomPlayerForYouTube, isMinimized>>

MountKey == KeyOf(currentVideo, currentCategory, useCustomPlayerForYouTube)

Mounted == MountKey # NoMount

isYouTubeMedia == Mounted /\ MediaType[currentVideo] = "YOUTUBE"

isNativeVideo == Mounted /\ ~isYouTubeMedia

useYouTubeCustomPlayer == isYouTubeMedia /\ useCustomPlayerForYouTube

useYouTubeNativePlayer == isYouTubeMedia /\ ~useCustomPlayerForYouTube

\* a test that takes every medium for controllable, the raw embed too
isControllable_AnyMedia == isNativeVideo \/ isYouTubeMedia

isControllable == isNativeVideo \/ useYouTubeCustomPlayer

effectiveReady ==
  IF isNativeVideo THEN isReady
  ELSE IF useYouTubeCustomPlayer THEN isYouTubeReady ELSE TRUE

\* The props UnifiedPlayer passes to the one YouTubePlayer element.
showCustomControls == ~isMinimized

showMiniControls == isMinimized

\* What the render of a mounted YouTubePlayer contains.
SpinnerShown == Mounted /\ ~effectiveReady /\ ~videoError

ErrorPanelShown == Mounted /\ videoError

ControlsShown == Mounted /\ showCustomControls /\ isControllable

MiniControlsShown == Mounted /\ showMiniControls /\ isControllable

\* a stopYouTubeTicker that drops the handle without clearing the interval
stopYouTubeTicker_KeepInterval(ref, live) == [ref |-> FALSE, live |-> live]

\* clearInterval on the handle in youtubeTickRef, if any
stopYouTubeTicker(ref, live) ==
  IF ref THEN [ref |-> FALSE, live |-> live - 1] ELSE [ref |-> ref, live |-> live]

\* a cleanup that forgets to destroy the widget
WidgetCleanup_NoDestroy ==
  IF useYouTubeCustomPlayer
    THEN [tickers |-> stopYouTubeTicker(youtubeTickRef, tickers).live,
          widgets |-> widgets]
    ELSE [tickers |-> tickers, widgets |-> widgets]

\* cleanup of the widget effect: the intervals and widgets it leaves alive.
\* The effect returns a cleanup only past its early returns.
WidgetCleanup ==
  IF useYouTubeCustomPlayer
    THEN [tickers |-> stopYouTubeTicker(youtubeTickRef, tickers).live,
          widgets |-> IF youtubePlayerRef # "null" THEN widgets - 1 ELSE widgets]
    ELSE [tickers |-> tickers, widgets |-> widgets]

\* a native cleanup that removes nothing
NativeCleanup_KeepListeners(attached) == attached

\* cleanup of the native effect: are listeners still attached afterwards
NativeCleanup(attached) == FALSE

NoTeardown == [widget |-> FALSE, ticker |-> FALSE, inFlight |-> FALSE]

\* React unmounts the keyed element: the effect cleanups run; closures of
\* the old instance that are still scheduled stay scheduled.
Teardown ==
  IF ~Mounted
    THEN UNCHANGED <<staleThen, staleWidgets, staleTickers, staleListeners,
                     stalePulse, lastTeardown>>
    ELSE LET left == WidgetCleanup IN
         /\ staleThen' = (staleThen \/ loadPromise = "pending")
         /\ staleWidgets' = (staleWidgets \/ left.widgets > 0)
         /\ staleTickers' = (staleTickers \/ left.tickers > 0)
         /\ staleListeners' = (staleListeners \/ NativeCleanup(nativeListeners))
         /\ stalePulse' = (stalePulse \/ pulseTimers > 0)
         /\ lastTeardown' = [widget |-> youtubePlayerRef # "null",
                             ticker |-> tickers > 0,
                             inFlight |-> loadPromise = "pending"]

NoTaps == [prevSide |-> "null", prevAt |-> 0, lastSide |-> "null", lastAt |-> 0,
           skips |-> <<>>]

\* A new instance: refs and useState initial values, and the effects of the
\* first render (the widget effect asks the loader for the IFrame API, the
\* native effect attaches its listeners).
MountFresh ==
  /\ loadPromise' = IF useYouTubeCustomPlayer' THEN "pending" ELSE "none"
  /\ youtubePlayerRef' = "null"
  /\ widgets' = 0
  /\ youtubeTickRef' = FALSE
  /\ tickers' = 0
  /\ nativeListeners' = isNativeVideo'
  /\ isReady' = FALSE
  /\ isYouTubeReady' = FALSE
  /\ videoError' = FALSE
  /\ isPlaying' = TRUE
  /\ currentTime' = 0
  /\ duration' = 0
  /\ volume' = 100
  /\ isMuted' = FALSE
  /\ skipAnim' = "none"
  /\ backendTime' = 0
  /\ backendDuration' = 0
  /\ backendPlaying' = FALSE
  /\ backendVolume' = 100
  /\ backendMuted' = FALSE
  /\ pulseTimers' = 0
  /\ lastTapAtRef' = 0
  /\ lastTapSideRef' = "null"
  /\ dblClickDue' = "none"
  /\ tapHist' = NoTaps

\* The render that follows a change of the session or of the mode: the
\* instance is kept while its key is the same and replaced otherwise.
SyncMount ==
  IF MountKey' = MountKey
    THEN UNCHANGED instanceVars
    ELSE Teardown /\ MountFresh

(* ------------------------------------------------------------------ *)
(* Operations of the player, as steps                                   *)
(* ------------------------------------------------------------------ *)

\* VideoFeed card onClick
OpenVideo ==
  \E vc \in FeedCards :
    /\ openVideo(vc[1], vc[2])
    /\ hist' = Hist("openVideo")
    /\ UNCHANGED <<listVars, countdownVars>>
    /\ UNCHANGED <<loaderVars, useCustomPlayerForYouTube, clock>>
  /\ SyncMount

\* close buttons of UnifiedPlayer, or any consumer of the context
CloseVideo ==
  /\ closeVideo
  /\ hist' = Hist("closeVideo")
  /\ UNCHANGED <<listVars, countdownVars>>
  /\ UNCHANGED <<loaderVars, useCustomPlayerForYouTube, clock>>
  /\ SyncMount

SelectVideo ==
  \E vc \in FeedCards :
    /\ selectVideo(vc[1], vc[2])
    /\ hist' = Hist("selectVideo")
    /\ UNCHANGED <<listVars, countdownVars>>
    /\ UNCHANGED <<loaderVars, useCustomPlayerForYouTube, clock>>
  /\ SyncMount

MinimizePlayer ==
  /\ minimizePlayer
  /\ hist' = Hist("minimizePlayer")
  /\ UNCHANGED <<listVars, countdownVars>>
  /\ UNCHANGED <<loaderVars, useCustomPlayerForYouTube, clock>>
  /\ SyncMount

RestorePlayer ==
  /\ restorePlayer
  /\ hist' = Hist("restorePlayer")
  /\ UNCHANGED <<listVars, countdownVars>>
  /\ UNCHANGED <<loaderVars, useCustomPlayerForYouTube, clock>>
  /\ SyncMount

CloseMiniPlayer ==
  /\ closeMiniPlayer
  /\ hist' = Hist("closeMiniPlayer")
  /\ UNCHANGED <<listVars, countdownVars>>
  /\ UNCHANGED <<loaderVars, useCustomPlayerForYouTube, clock>>
  /\ SyncMount

\* "Up next" toggle button of the full-page layout
ToggleList ==
  /\ PlayerRendered /\ ~isMinimized
  /\ listVisible' = ~listVisible
  /\ UNCHANGED swipeStartY
  /\ hist' = Hist("toggleList")
  /\ UNCHANGED <<sessionVars, countdownVars>>
  /\ UNCHANGED <<loaderVars, useCustomPlayerForYouTube, clock>>
  /\ SyncMount

\* handleWheelReveal: wheel event on the player's root element
handleWheelReveal(deltaY) ==
  IF isMinimized
    THEN UNCHANGED listVisible
    ELSE listVisible' = IF deltaY < -WheelThreshold THEN FALSE
                        ELSE IF deltaY > WheelThreshold THEN TRUE
                        ELSE listVisible

WheelRevealBy(deltaY) ==
  /\ PlayerRendered
  /\ handleWheelReveal(deltaY)
  /\ hist' = Hist("wheel")
  /\ UNCHANGED <<sessionVars, swipeStartY, countdownVars>>
  /\ UNCHANGED <<loaderVars, useCustomPlayerForYouTube, clock>>
  /\ SyncMount

WheelReveal == \E deltaY \in WheelDeltas : WheelRevealBy(deltaY)

\* handleSwipeStart: touchstart on the player's root element
handleSwipeStart(clientY) ==
  IF isMinimized
    THEN UNCHANGED swipeStartY
    ELSE swipeStartY' = clientY

SwipeStart ==
  /\ PlayerRendered
  /\ \E clientY \in TouchYs : handleSwipeStart(clientY)
  /\ hist' = Hist("swipeStart")
  /\ UNCHANGED <<sessionVars, listVisible, countdownVars>>
  /\ UNCHANGED <<loaderVars, useCustomPlayerForYouTube, clock>>
  /\ SyncMount

\* handleSwipeEnd: touchend on the player's root element
handleSwipeEnd(clientY) ==
  IF isMinimized \/ swipeStartY = NoTouch
    THEN UNCHANGED listVars
    ELSE LET deltaY == clientY - swipeStartY
         IN  /\ swipeStartY' = NoTouch
             /\ listVisible' = IF deltaY > SwipeThreshold THEN FALSE
                               ELSE IF deltaY < -SwipeThreshold THEN TRUE
                               ELSE listVisible

SwipeEndAt(clientY) ==
  /\ PlayerRendered
  /\ handleSwipeEnd(clientY)
  /\ hist' = Hist("swipeEnd")
  /\ UNCHANGED <<sessionVars, countdownVars>>
  /\ UNCHANGED <<loaderVars, useCustomPlayerForYouTube, clock>>
  /\ SyncMount

SwipeEnd == \E clientY \in TouchYs : SwipeEndAt(clientY)

\* the related list and the gestures that show and hide it, with the session
\* operations that change the layout under them
GestureNext ==
  \/ OpenVideo
  \/ CloseVideo
  \/ MinimizePlayer
  \/ RestorePlayer
  \/ ToggleList
  \/ WheelReveal
  \/ SwipeStart
  \/ SwipeEnd

\* ended signal of the mounted adapter
HandleEnded ==
  /\ PlayerRendered
  /\ CanSetInterval
  /\ handleEnded
  /\ hist' = Hist("handleEnded")
  /\ UNCHANGED <<loaderVars, useCustomPlayerForYouTube, clock>>
  /\ SyncMount

\* Cancel button of the countdown overlay
CancelCountdown ==
  /\ PlayerRendered /\ showCountdown /\ ~isMinimized
  /\ cancelCountdown
  /\ hist' = Hist("cancelCountdown")
  /\ UNCHANGED <<sessionVars, listVars>>
  /\ UNCHANGED <<loaderVars, useCustomPlayerForYouTube, clock>>
  /\ SyncMount

\* click on an entry of the related list
HandleRelatedSelect ==
  /\ PlayerRendered /\ ~isMinimized /\ listVisible
  /\ \E video \in SeqRange(relatedVideos) : handleRelatedSelect(video)
  /\ hist' = Hist("handleRelatedSelect")
  /\ UNCHANGED <<loaderVars, useCustomPlayerForYouTube, clock>>
  /\ SyncMount

\* one firing of a live countdown interval
CountdownTick ==
  /\ liveIntervals # {}
  /\ countdownTick
  /\ hist' = Hist(IF ExpiresAt(countdownValueRef - 1) THEN "tickExpire" ELSE "tick")
  /\ UNCHANGED <<loaderVars, useCustomPlayerForYouTube, clock>>
  /\ SyncMount

PlayerInit ==
  /\ currentVideo = Null
  /\ currentCategory = Null
  /\ isPlayerOpen = FALSE
  /\ isMinimized = FALSE
  /\ listVisible = FALSE
  /\ swipeStartY = NoTouch
  /\ showCountdown = FALSE
  /\ countdown = 2
  /\ countdownValueRef = 2
  /\ countdownIntervalRef = 0
  /\ nextVideoRef = NoNext
  /\ liveIntervals = {}
  /\ hist = [op |-> "init", wasActive |-> FALSE, prevVideo |-> Null]

PlayerNext ==
  \/ OpenVideo
  \/ CloseVideo
  \/ SelectVideo
  \/ MinimizePlayer
  \/ RestorePlayer
  \/ CloseMiniPlayer
  \/ ToggleList
  \/ HandleEnded
  \/ CancelCountdown
  \/ HandleRelatedSelect
  \/ CountdownTick

(* ------------------------------------------------------------------ *)
(* YouTubePlayer: events of the mounted instance                        *)
(* ------------------------------------------------------------------ *)

\* what an instance event leaves alone outside the instance
outsideInstance == <<sessionVars, listVars, hist, useCustomPlayerForYouTube,
                     loaderVars, clock>>

\* mode buttons of the page
ToggleYouTubePlayerMode ==
  /\ useCustomPlayerForYouTube' = ~useCustomPlayerForYouTube
  /\ hist' = Hist("toggleYouTubePlayerMode")
  /\ UNCHANGED <<sessionVars, listVars, countdownVars, loaderVars, clock>>
  /\ SyncMount

\* a then-callback that creates the widget whatever happened to its mount
ThenReturnsEarly_Never(cancelled, hostPresent) == FALSE

\* if (cancelled || !youtubeHostRef.current) return;
ThenReturnsEarly(cancelled, hostPresent) == cancelled \/ ~hostPresent

\* the loader promise of the mounted instance resolves: .then callback
LoaderResolves ==
  /\ loadPromise = "pending"
  /\ loadPromise' = "settled"
  /\ IF ThenReturnsEarly(FALSE, TRUE)
       THEN UNCHANGED <<youtubePlayerRef, widgets>>
       ELSE /\ widgets' = (IF youtubePlayerRef # "null" THEN widgets - 1 ELSE widgets) + 1
            /\ youtubePlayerRef' = "created"
  /\ UNCHANGED <<youtubeTickRef, tickers, nativeListeners, staleThen, staleWidgets,
                 staleTickers, staleListeners>>
  /\ UNCHANGED <<adapterVars, backendVars, pulseVars, tapVars, lastTeardown>>
  /\ UNCHANGED <<outsideInstance, countdownVars>>

\* the loader promise of the mounted instance rejects: .catch callback
LoaderRejects ==
  /\ loadPromise = "pending"
  /\ loadPromise' = "settled"
  /\ videoError' = TRUE
  /\ isYouTubeReady' = FALSE
  /\ UNCHANGED <<youtubePlayerRef, widgets, youtubeTickRef, tickers, nativeListeners,
                 staleThen, staleWidgets, staleTickers, staleListeners>>
  /\ UNCHANGED <<isReady, isPlaying, currentTime, duration, volume, isMuted, skipAnim>>
  /\ UNCHANGED <<backendVars, pulseVars, tapVars, lastTeardown>>
  /\ UNCHANGED <<outsideInstance, countdownVars>>

\* The loader promise settles for an instance that was torn down: its
\* closure has cancelled = true and its host element is gone, and the state
\* setters of the .catch callback belong to an unmounted component.
StaleLoaderSettles ==
  /\ staleThen
  /\ staleThen' = FALSE
  /\ \E resolved \in BOOLEAN :
       staleWidgets' = (staleWidgets \/ (resolved /\ ~ThenReturnsEarly(TRUE, FALSE)))
  /\ UNCHANGED <<loadPromise, youtubePlayerRef, widgets, youtubeTickRef, tickers,
                 nativeListeners, staleTickers, staleListeners>>
  /\ UNCHANGED <<adapterVars, backendVars, pulseVars, tapVars, lastTeardown>>
  /\ UNCHANGED <<outsideInstance, countdownVars>>

\* the widget learns the length of its video
WidgetMetadata ==
  /\ youtubePlayerRef # "null" /\ backendDuration = 0
  /\ backendDuration' = VideoDuration
  /\ UNCHANGED <<backendTime, backendPlaying, backendVolume, backendMuted>>
  /\ UNCHANGED <<mountVars, adapterVars, pulseVars, tapVars, lastTeardown>>
  /\ UNCHANGED <<outsideInstance, countdownVars>>

\* onReady of the widget (cancelled is false: the widget of a torn-down
\* instance is destroyed and calls nothing)
WidgetReady ==
  /\ youtubePlayerRef = "created"
  /\ youtubePlayerRef' = "ready"
  /\ isYouTubeReady' = TRUE
  /\ videoError' = FALSE
  /\ duration' = backendDuration
  /\ IF isMuted
       THEN backendMuted' = TRUE /\ UNCHANGED backendVolume
       ELSE backendMuted' = FALSE /\ backendVolume' = volume
  /\ \E started \in BOOLEAN : backendPlaying' = started
  /\ LET t == stopYouTubeTicker(youtubeTickRef, tickers) IN
       /\ tickers' = t.live + 1
       /\ youtubeTickRef' = TRUE
  /\ UNCHANGED <<loadPromise, widgets, nativeListeners, staleThen, staleWidgets,
                 staleTickers, staleListeners>>
  /\ UNCHANGED <<isReady, isPlaying, currentTime, volume, isMuted, skipAnim>>
  /\ UNCHANGED <<backendTime, backendDuration>>
  /\ UNCHANGED <<pulseVars, tapVars, lastTeardown>>
  /\ UNCHANGED <<outsideInstance, countdownVars>>

\* a tick that reads the position only
PollTick_TimeOnly ==
  /\ tickers > 0
  /\ IF youtubePlayerRef = "null"
       THEN UNCHANGED currentTime
       ELSE currentTime' = backendTime
  /\ UNCHANGED <<isReady, isYouTubeReady, videoError, isPlaying, duration, volume, isMuted,
                 skipAnim>>
  /\ UNCHANGED <<mountVars, backendVars, pulseVars, tapVars, lastTeardown>>
  /\ UNCHANGED <<outsideInstance, countdownVars>>

\* one firing of a live poll interval of the mounted instance
PollTick ==
  /\ tickers > 0
  /\ IF youtubePlayerRef = "null"
       THEN UNCHANGED <<currentTime, duration>>
       ELSE /\ currentTime' = backendTime
            /\ duration' = IF backendDuration > 0 THEN backendDuration ELSE duration
  /\ UNCHANGED <<isReady, isYouTubeReady, videoError, isPlaying, volume, isMuted, skipAnim>>
  /\ UNCHANGED <<mountVars, backendVars, pulseVars, tapVars, lastTeardown>>
  /\ UNCHANGED <<outsideInstance, countdownVars>>

PlayerStates == {"PLAYING", "PAUSED", "ENDED"}

\* onStateChange of the widget
WidgetStateChange ==
  /\ youtubePlayerRef # "null"
  /\ \E data \in PlayerStates :
       CASE data = "PLAYING" ->
              /\ backendPlaying' = TRUE
              /\ isPlaying' = TRUE
              /\ UNCHANGED <<backendTime, sessionVars, listVars, countdownVars>>
         [] data = "PAUSED" ->
              /\ backendPlaying' = FALSE
              /\ isPlaying' = FALSE
              /\ UNCHANGED <<backendTime, sessionVars, listVars, countdownVars>>
         [] data = "ENDED" ->
              /\ backendDuration > 0 /\ CanSetInterval
              /\ backendPlaying' = FALSE
              /\ backendTime' = backendDuration
              /\ isPlaying' = FALSE
              /\ handleEnded
  /\ UNCHANGED <<backendDuration, backendVolume, backendMuted>>
  /\ UNCHANGED <<isReady, isYouTubeReady, videoError, currentTime, duration, volume,
                 isMuted, skipAnim>>
  /\ UNCHANGED <<mountVars, pulseVars, tapVars, lastTeardown>>
  /\ UNCHANGED <<hist, useCustomPlayerForYouTube, loaderVars, clock>>

\* An error handler that reaches into the session and restores the player.
WidgetError_Restores ==
  /\ youtubePlayerRef # "null"
  /\ videoError' = TRUE
  /\ isMinimized' = FALSE
  /\ UNCHANGED <<currentVideo, currentCategory, isPlayerOpen>>
  /\ UNCHANGED <<isReady, isYouTubeReady, isPlaying, currentTime, duration, volume,
                 isMuted, skipAnim>>
  /\ UNCHANGED <<mountVars, backendVars, pulseVars, tapVars, lastTeardown>>
  /\ UNCHANGED <<listVars, hist, useCustomPlayerForYouTube, loaderVars, clock,
                 countdownVars>>

\* onError of the widget
WidgetError ==
  /\ youtubePlayerRef # "null"
  /\ videoError' = TRUE
  /\ UNCHANGED <<isReady, isYouTubeReady, isPlaying, currentTime, duration, volume,
                 isMuted, skipAnim>>
  /\ UNCHANGED <<mountVars, backendVars, pulseVars, tapVars, lastTeardown>>
  /\ UNCHANGED <<outsideInstance, countdownVars>>

\* loadedmetadata listener of the <video> element
NativeLoadedMetadata ==
  /\ nativeListeners /\ backendDuration = 0
  /\ backendDuration' = VideoDuration
  /\ isReady' = TRUE
  /\ videoError' = FALSE
  /\ duration' = backendDuration'
  /\ UNCHANGED <<isYouTubeReady, isPlaying, currentTime, volume, isMuted, skipAnim>>
  /\ UNCHANGED <<backendTime, backendPlaying, backendVolume, backendMuted>>
  /\ UNCHANGED <<mountVars, pulseVars, tapVars, lastTeardown>>
  /\ UNCHANGED <<outsideInstance, countdownVars>>

\* canplay listener
NativeCanPlay ==
  /\ nativeListeners /\ backendDuration > 0
  /\ isReady' = TRUE
  /\ videoError' = FALSE
  /\ UNCHANGED <<isYouTubeReady, isPlaying, currentTime, duration, volume, isMuted,
                 skipAnim>>
  /\ UNCHANGED <<mountVars, backendVars, pulseVars, tapVars, lastTeardown>>
  /\ UNCHANGED <<outsideInstance, countdownVars>>

\* error listener
NativeError ==
  /\ nativeListeners
  /\ videoError' = TRUE
  /\ UNCHANGED <<isReady, isYouTubeReady, isPlaying, currentTime, duration, volume,
                 isMuted, skipAnim>>
  /\ UNCHANGED <<mountVars, backendVars, pulseVars, tapVars, lastTeardown>>
  /\ UNCHANGED <<outsideInstance, countdownVars>>

\* the element is at its end
NativeElementEnded == backendDuration > 0 /\ backendTime = backendDuration

\* timeupdate listener: tickNative, then the paused flag
NativeTimeUpdate ==
  /\ nativeListeners /\ backendDuration > 0
  /\ currentTime' = backendTime
  /\ duration' = backendDuration
  /\ isPlaying' = backendPlaying
  /\ IF NativeElementEnded
       THEN CanSetInterval /\ handleEnded
       ELSE UNCHANGED <<sessionVars, listVars, countdownVars>>
  /\ UNCHANGED <<isReady, isYouTubeReady, videoError, volume, isMuted, skipAnim>>
  /\ UNCHANGED <<mountVars, backendVars, pulseVars, tapVars, lastTeardown>>
  /\ UNCHANGED <<hist, useCustomPlayerForYouTube, loaderVars, clock>>

\* playback reaches the end: ended listener
NativeEnded ==
  /\ nativeListeners /\ backendDuration > 0 /\ backendPlaying
  /\ CanSetInterval
  /\ backendTime' = backendDuration
  /\ backendPlaying' = FALSE
  /\ isPlaying' = FALSE
  /\ handleEnded
  /\ UNCHANGED <<backendDuration, backendVolume, backendMuted>>
  /\ UNCHANGED <<isReady, isYouTubeReady, videoError, currentTime, duration, volume,
                 isMuted, skipAnim>>
  /\ UNCHANGED <<mountVars, pulseVars, tapVars, lastTeardown>>
  /\ UNCHANGED <<hist, useCustomPlayerForYouTube, loaderVars, clock>>

\* autoplay of the <video> element is granted: the play() of the native effect
NativePlayStarts ==
  /\ nativeListeners /\ backendDuration > 0 /\ ~backendPlaying /\ ~NativeElementEnded
  /\ backendPlaying' = TRUE
  /\ UNCHANGED <<backendTime, backendDuration, backendVolume, backendMuted>>
  /\ UNCHANGED <<mountVars, adapterVars, pulseVars, tapVars, lastTeardown>>
  /\ UNCHANGED <<outsideInstance, countdownVars>>

(* ------------------------------------------------------------------ *)
(* YouTubePlayer: skip                                                  *)
(* ------------------------------------------------------------------ *)

Max2(a, b) == IF a >= b THEN a ELSE b

Min2(a, b) == IF a <= b THEN a ELSE b

SkipDeltas == {-10, 10}

\* setSkipAnim(delta > 0 ? "fwd" : "back")
PulseOf(delta) == IF delta > 0 THEN "fwd" ELSE "back"

\* a skip that does not test the duration
skip_NoDurationGuard(delta) ==
  IF ~effectiveReady \/ ~isControllable
    THEN UNCHANGED <<backendTime, currentTime, skipAnim, pulseTimers>>
  ELSE IF isNativeVideo
    THEN LET newTime == Max2(0, Min2(duration, currentTime + delta)) IN
         /\ backendTime' = newTime
         /\ skipAnim' = PulseOf(delta)
         /\ pulseTimers' = pulseTimers + 1
         /\ UNCHANGED currentTime
  ELSE IF useYouTubeCustomPlayer /\ youtubePlayerRef # "null"
    THEN LET current == backendTime
             total == IF backendDuration # 0 THEN backendDuration ELSE duration
             newTime == Max2(0, Min2(total, current + delta))
         IN /\ backendTime' = newTime
            /\ currentTime' = newTime
            /\ skipAnim' = PulseOf(delta)
            /\ pulseTimers' = pulseTimers + 1
  ELSE UNCHANGED <<backendTime, currentTime, skipAnim, pulseTimers>>

\* skip(delta): the native branch computes from the adapter state, the
\* widget branch from what the widget reports
skip(delta) ==
  IF ~effectiveReady \/ duration = 0 \/ ~isControllable
    THEN UNCHANGED <<backendTime, currentTime, skipAnim, pulseTimers>>
  ELSE IF isNativeVideo
    THEN LET newTime == Max2(0, Min2(duration, currentTime + delta)) IN
         /\ backendTime' = newTime
         /\ skipAnim' = PulseOf(delta)
         /\ pulseTimers' = pulseTimers + 1
         /\ UNCHANGED currentTime
  ELSE IF useYouTubeCustomPlayer /\ youtubePlayerRef # "null"
    THEN LET current == backendTime
             total == IF backendDuration # 0 THEN backendDuration ELSE duration
             newTime == Max2(0, Min2(total, current + delta))
         IN /\ backendTime' = newTime
            /\ currentTime' = newTime
            /\ skipAnim' = PulseOf(delta)
            /\ pulseTimers' = pulseTimers + 1
  ELSE UNCHANGED <<backendTime, currentTime, skipAnim, pulseTimers>>

\* what a skip step leaves alone
skipFrame ==
  /\ UNCHANGED <<isReady, isYouTubeReady, videoError, isPlaying, duration, volume, isMuted>>
  /\ UNCHANGED <<backendDuration, backendPlaying, backendVolume, backendMuted>>
  /\ UNCHANGED <<mountVars, stalePulse, lastTeardown>>
  /\ UNCHANGED <<outsideInstance, countdownVars>>

\* skip buttons of the control bar
SkipButton ==
  /\ Mounted /\ isControllable /\ ~isMinimized
  /\ pulseTimers < MaxPulse
  /\ \E delta \in SkipDeltas : skip(delta)
  /\ UNCHANGED tapVars
  /\ skipFrame

\* setTimeout(() => setSkipAnim(null), 400) of the mounted instance fires
PulseFires ==
  /\ pulseTimers > 0
  /\ pulseTimers' = pulseTimers - 1
  /\ skipAnim' = "none"
  /\ UNCHANGED <<isReady, isYouTubeReady, videoError, isPlaying, currentTime, duration,
                 volume, isMuted>>
  /\ UNCHANGED <<mountVars, backendVars, stalePulse, tapVars, lastTeardown>>
  /\ UNCHANGED <<outsideInstance, countdownVars>>

\* the same timeout of a torn-down instance fires: its setter belongs to an
\* unmounted component
StalePulseFires ==
  /\ stalePulse
  /\ stalePulse' = FALSE
  /\ UNCHANGED <<mountVars, adapterVars, backendVars, pulseTimers, tapVars, lastTeardown>>
  /\ UNCHANGED <<outsideInstance, countdownVars>>

(* ------------------------------------------------------------------ *)
(* YouTubePlayer: seek and playback progress                            *)
(* ------------------------------------------------------------------ *)

\* values of the seek slider (min 0, max 100) that are explored; with
\* VideoDuration they give whole seconds
Percents == {0, 25, 50, 75, 100}

\* seconds of playback between two observations of the backend
PlayStep == 5

\* a seek that scales the current time instead of the duration
seek_ScalesCurrentTime(pct) ==
  IF ~effectiveReady \/ duration = 0 \/ ~isControllable
    THEN UNCHANGED <<backendTime, currentTime>>
  ELSE LET nextTime == (pct * currentTime) \div 100 IN
    IF isNativeVideo
      THEN backendTime' = nextTime /\ UNCHANGED currentTime
    ELSE IF useYouTubeCustomPlayer /\ youtubePlayerRef # "null"
      THEN backendTime' = nextTime /\ currentTime' = nextTime
    ELSE UNCHANGED <<backendTime, currentTime>>

\* seek(e): nextTime = (pct / 100) * duration
seek(pct) ==
  IF ~effectiveReady \/ duration = 0 \/ ~isControllable
    THEN UNCHANGED <<backendTime, currentTime>>
  ELSE LET nextTime == (pct * duration) \div 100 IN
    IF isNativeVideo
      THEN backendTime' = nextTime /\ UNCHANGED currentTime
    ELSE IF useYouTubeCustomPlayer /\ youtubePlayerRef # "null"
      THEN backendTime' = nextTime /\ currentTime' = nextTime
    ELSE UNCHANGED <<backendTime, currentTime>>

\* onChange of the seek slider; the slider is disabled until the adapter is
\* ready with a duration
SeekSlider ==
  /\ Mounted /\ isControllable /\ ~isMinimized
  /\ effectiveReady /\ duration # 0
  /\ \E pct \in Percents : seek(pct)
  /\ UNCHANGED <<skipAnim, pulseTimers, tapVars>>
  /\ skipFrame

\* the backend plays on
BackendAdvance ==
  /\ Mounted /\ backendPlaying
  /\ backendDuration > 0 /\ backendTime < backendDuration
  /\ backendTime' = Min2(backendDuration, backendTime + PlayStep)
  /\ UNCHANGED <<backendDuration, backendPlaying, backendVolume, backendMuted>>
  /\ UNCHANGED <<mountVars, adapterVars, pulseVars, tapVars, lastTeardown>>
  /\ UNCHANGED <<outsideInstance, countdownVars>>

\* native videos are played to their end, and the countdown that follows
EndedNext ==
  \/ OpenVideo
  \/ NativeLoadedMetadata
  \/ NativePlayStarts
  \/ BackendAdvance
  \/ NativeTimeUpdate
  \/ NativeEnded
  \/ CountdownTick
  \/ CancelCountdown

\* one video is opened and played: backend events, skip and seek
TransportNext ==
  \/ OpenVideo
  \/ LoaderResolves
  \/ WidgetMetadata
  \/ WidgetReady
  \/ PollTick
  \/ WidgetStateChange
  \/ NativeLoadedMetadata
  \/ NativePlayStarts
  \/ NativeTimeUpdate
  \/ NativeEnded
  \/ BackendAdvance
  \/ SkipButton
  \/ SeekSlider
  \/ PulseFires
  \/ StalePulseFires

(* ------------------------------------------------------------------ *)
(* YouTubePlayer: volume and mute                                       *)
(* ------------------------------------------------------------------ *)

\* values of the volume slider (min 0, max 100) that are explored
Volumes == {0, 50, 100}

\* a volume setter that treats volume 0 as mute
setVolume_MutesAtZero(value) ==
  /\ volume' = value
  /\ isMuted' = (value = 0)

\* setVolume(parseFloat(e.target.value) / 100); the model keeps volume * 100
setVolume(value) ==
  /\ volume' = value
  /\ UNCHANGED isMuted

\* setIsMuted((value) => !value)
toggleMute ==
  /\ isMuted' = ~isMuted
  /\ UNCHANGED volume

\* a sync effect that serves the media element only
VolumeSyncEffect_NativeOnly ==
  IF volume' = volume /\ isMuted' = isMuted
    THEN UNCHANGED <<backendVolume, backendMuted>>
  ELSE IF isNativeVideo
    THEN backendVolume' = volume' /\ backendMuted' = isMuted'
  ELSE UNCHANGED <<backendVolume, backendMuted>>

\* useEffect(..., [volume, isMuted, ...]) after a render that changed volume
\* or isMuted: Math.round(volume * 100) is the slider value again
VolumeSyncEffect ==
  IF volume' = volume /\ isMuted' = isMuted
    THEN UNCHANGED <<backendVolume, backendMuted>>
  ELSE IF isNativeVideo
    THEN backendVolume' = volume' /\ backendMuted' = isMuted'
  ELSE IF youtubePlayerRef # "null" /\ useYouTubeCustomPlayer /\ isYouTubeReady
    THEN IF isMuted'
           THEN backendMuted' = TRUE /\ UNCHANGED backendVolume
           ELSE backendMuted' = FALSE /\ backendVolume' = volume'
  ELSE UNCHANGED <<backendVolume, backendMuted>>

\* what a volume or mute step leaves alone
volumeFrame ==
  /\ UNCHANGED <<isReady, isYouTubeReady, videoError, isPlaying, currentTime, duration,
                 skipAnim>>
  /\ UNCHANGED <<backendTime, backendDuration, backendPlaying>>
  /\ UNCHANGED <<mountVars, pulseVars, tapVars, lastTeardown>>
  /\ UNCHANGED <<outsideInstance, countdownVars>>

\* onChange of the volume slider (disabled until the adapter is ready)
VolumeSlider ==
  /\ Mounted /\ isControllable /\ ~isMinimized /\ effectiveReady
  /\ \E value \in Volumes : setVolume(value)
  /\ VolumeSyncEffect
  /\ volumeFrame

\* the mute button (disabled until the adapter is ready)
MuteButton ==
  /\ Mounted /\ isControllable /\ ~isMinimized /\ effectiveReady
  /\ toggleMute
  /\ VolumeSyncEffect
  /\ volumeFrame

\* videos are opened and become ready; volume and mute controls
VolumeNext ==
  \/ OpenVideo
  \/ ToggleYouTubePlayerMode
  \/ LoaderResolves
  \/ WidgetReady
  \/ NativeLoadedMetadata
  \/ VolumeSlider
  \/ MuteButton

(* ------------------------------------------------------------------ *)
(* YouTubePlayer: gestures on the player surface                        *)
(* ------------------------------------------------------------------ *)

Sides == {"left", "right"}

\* milliseconds between two instants at which a tap is explored: two taps
\* one step apart are a double tap, two steps apart are not
TapGap == 160

\* side === "left" ? -10 : 10, and clickX < midpoint ? -10 : 10
DeltaOf(side) == IF side = "left" THEN -10 ELSE 10

\* a double-tap test that forgets the side
IsDoubleTap_AnySide(now, side) == now - lastTapAtRef < 320

\* now - lastTapAtRef.current < 320 && lastTapSideRef.current === side
IsDoubleTap(now, side) == now - lastTapAtRef < 320 /\ lastTapSideRef = side

\* time passes
ClockAdvance ==
  /\ clock < StartClock + MaxTicks * TapGap
  /\ dblClickDue = "none"
  /\ clock' = clock + TapGap
  /\ UNCHANGED <<sessionVars, listVars, hist, useCustomPlayerForYouTube, loaderVars,
                 countdownVars, instanceVars>>

\* the pair of taps the next tap completes: the tap before it, unless that
\* one completed a pair itself
NextTapHist(side, skips) ==
  [prevSide |-> IF tapHist.skips # <<>> THEN "null" ELSE tapHist.lastSide,
   prevAt |-> tapHist.lastAt,
   lastSide |-> side,
   lastAt |-> clock,
   skips |-> skips]

\* onTouchEnd of the gesture overlay of the custom YouTube mode:
\* handleCustomModeTouchEnd. The overlay also has onDoubleClick, and the
\* handler does not call preventDefault: when the tap follows the previous
\* one closely the browser may go on to dispatch a dblclick for the pair.
TouchEnd ==
  /\ Mounted /\ useYouTubeCustomPlayer
  /\ dblClickDue = "none"
  /\ pulseTimers < MaxPulse
  /\ \E side \in Sides :
       /\ IF IsDoubleTap(clock, side)
            THEN /\ skip(DeltaOf(side))
                 /\ lastTapAtRef' = 0
                 /\ lastTapSideRef' = "null"
                 /\ tapHist' = NextTapHist(side, <<DeltaOf(side)>>)
            ELSE /\ lastTapAtRef' = clock
                 /\ lastTapSideRef' = side
                 /\ tapHist' = NextTapHist(side, <<>>)
                 /\ UNCHANGED <<backendTime, currentTime, skipAnim, pulseTimers>>
       /\ IF tapHist.lastSide # "null" /\ clock - tapHist.lastAt <= TapGap
            THEN dblClickDue' \in {"none", side}
            ELSE dblClickDue' = "none"
  /\ skipFrame

\* onDoubleClick of the overlay: handleDoubleClick, for the dblclick the
\* browser dispatches after the second tap
DblClickDispatch ==
  /\ Mounted /\ dblClickDue # "none"
  /\ pulseTimers < MaxPulse
  /\ IF isControllable
       THEN skip(DeltaOf(dblClickDue))
       ELSE UNCHANGED <<backendTime, currentTime, skipAnim, pulseTimers>>
  /\ tapHist' = [tapHist EXCEPT !.skips = Append(@, DeltaOf(dblClickDue))]
  /\ dblClickDue' = "none"
  /\ UNCHANGED <<lastTapAtRef, lastTapSideRef>>
  /\ skipFrame

\* a custom-mode YouTube video becomes ready and is tapped
TapNext ==
  \/ OpenVideo
  \/ LoaderResolves
  \/ WidgetMetadata
  \/ WidgetReady
  \/ ClockAdvance
  \/ TouchEnd
  \/ DblClickDispatch
  \/ PulseFires

(* ------------------------------------------------------------------ *)
(* YouTubePlayer: play/pause and double click                           *)
(* ------------------------------------------------------------------ *)

\* play() of the element, playVideo() of the widget: playback that has run to
\* the end starts again from the beginning
PlayFrom(time) == IF NativeElementEnded THEN 0 ELSE time

\* a togglePlay that always follows the adapter's flag, for the widget too
togglePlay_ByFlag ==
  IF ~effectiveReady \/ ~isControllable
    THEN UNCHANGED <<isPlaying, backendPlaying, backendTime>>
  ELSE IF isNativeVideo \/ (useYouTubeCustomPlayer /\ youtubePlayerRef # "null")
    THEN /\ backendPlaying' = ~isPlaying
         /\ backendTime' = (IF isPlaying THEN backendTime ELSE PlayFrom(backendTime))
         /\ isPlaying' = ~isPlaying
  ELSE UNCHANGED <<isPlaying, backendPlaying, backendTime>>

\* togglePlay(): the native branch decides by the adapter's isPlaying, the
\* widget branch by getPlayerState() === 1, which backendPlaying stands for
togglePlay ==
  IF ~effectiveReady \/ ~isControllable
    THEN UNCHANGED <<isPlaying, backendPlaying, backendTime>>
  ELSE IF isNativeVideo
    THEN /\ backendPlaying' = ~isPlaying
         /\ backendTime' = (IF isPlaying THEN backendTime ELSE PlayFrom(backendTime))
         /\ isPlaying' = ~isPlaying
  ELSE IF useYouTubeCustomPlayer /\ youtubePlayerRef # "null"
    THEN IF backendPlaying
           THEN /\ backendPlaying' = FALSE
                /\ isPlaying' = FALSE
                /\ UNCHANGED backendTime
           ELSE /\ backendPlaying' = TRUE
                /\ isPlaying' = TRUE
                /\ backendTime' = PlayFrom(backendTime)
  ELSE UNCHANGED <<isPlaying, backendPlaying, backendTime>>

\* play/pause button of the control bar (disabled until ready) or of the mini
\* player (never disabled)
TogglePlayButton ==
  /\ \/ ControlsShown /\ effectiveReady
     \/ MiniControlsShown
  /\ togglePlay
  /\ hist' = Hist("togglePlay")
  /\ UNCHANGED <<isReady, isYouTubeReady, videoError, currentTime, duration, volume,
                 isMuted, skipAnim>>
  /\ UNCHANGED <<backendDuration, backendVolume, backendMuted>>
  /\ UNCHANGED <<mountVars, pulseVars, tapVars, lastTeardown>>
  /\ UNCHANGED <<sessionVars, listVars, useCustomPlayerForYouTube, loaderVars, clock,
                 countdownVars>>

\* a handleDoubleClick without its own test
handleDoubleClick_NoGuard(delta) == skip(delta)

\* handleDoubleClick(e): the half of the container that was hit gives the delta
handleDoubleClick(delta) ==
  IF ~isControllable
    THEN UNCHANGED <<backendTime, currentTime, skipAnim, pulseTimers>>
    ELSE skip(delta)

\* a double click on the <video>, on the raw embed's wrapper or on the overlay
DoubleClick ==
  /\ Mounted
  /\ pulseTimers < MaxPulse
  /\ \E side \in Sides : handleDoubleClick(DeltaOf(side))
  /\ hist' = Hist("doubleClick")
  /\ UNCHANGED <<isReady, isYouTubeReady, videoError, isPlaying, duration, volume, isMuted>>
  /\ UNCHANGED <<backendDuration, backendPlaying, backendVolume, backendMuted>>
  /\ UNCHANGED <<mountVars, stalePulse, tapVars, lastTeardown>>
  /\ UNCHANGED <<sessionVars, listVars, useCustomPlayerForYouTube, loaderVars, clock,
                 countdownVars>>

\* a video in any of the three modes, full or minimized, and its controls
ControlNext ==
  \/ OpenVideo
  \/ MinimizePlayer
  \/ RestorePlayer
  \/ ToggleYouTubePlayerMode
  \/ LoaderResolves
  \/ WidgetMetadata
  \/ WidgetReady
  \/ WidgetStateChange
  \/ NativeLoadedMetadata
  \/ NativeTimeUpdate
  \/ TogglePlayButton
  \/ DoubleClick
  \/ PulseFires

(* ------------------------------------------------------------------ *)
(* YouTubePlayer: how the playing flag follows the backend              *)
(* ------------------------------------------------------------------ *)

\* The element fires timeupdate while it plays and when its position has
\* moved; an element that sits paused where it was last reported fires none.
TimeUpdateDue == backendPlaying \/ backendTime # currentTime

NativeTimeUpdateEvent == TimeUpdateDue /\ NativeTimeUpdate

\* one video, its backend and the events that report the backend
SyncNext ==
  \/ OpenVideo
  \/ LoaderResolves
  \/ WidgetMetadata
  \/ WidgetReady
  \/ PollTick
  \/ WidgetStateChange
  \/ NativeLoadedMetadata
  \/ NativePlayStarts
  \/ NativeTimeUpdateEvent
  \/ BackendAdvance
  \/ TogglePlayButton

(* ------------------------------------------------------------------ *)
(* YouTubePlayer: the values the backend reports                        *)
(* ------------------------------------------------------------------ *)

\* HTMLMediaElement.duration of a resource without a known end (a stream) is
\* +Infinity; this value stands for it, above every finite duration
PositiveInfinity == 10 * VideoDuration

\* Number.isFinite over the values of the model
isFinite(x) == x # PositiveInfinity

\* The element learns that its resource has no known end: its duration
\* attribute becomes +Infinity (durationchange, for which the component has no
\* listener).
ElementDurationChange ==
  /\ nativeListeners /\ backendDuration = VideoDuration
  /\ backendDuration' = PositiveInfinity
  /\ UNCHANGED <<backendTime, backendPlaying, backendVolume, backendMuted>>
  /\ UNCHANGED <<mountVars, adapterVars, pulseVars, tapVars, lastTeardown>>
  /\ UNCHANGED <<outsideInstance, countdownVars>>

\* videos become ready and report their position, duration and volume
RangeNext ==
  \/ OpenVideo
  \/ LoaderResolves
  \/ WidgetMetadata
  \/ WidgetReady
  \/ PollTick
  \/ NativeLoadedMetadata
  \/ NativePlayStarts
  \/ NativeTimeUpdate
  \/ ElementDurationChange
  \/ VolumeSlider
  \/ MuteButton

InstanceInit ==
  /\ useCustomPlayerForYouTube = TRUE
  /\ loadPromise = "none"
  /\ youtubePlayerRef = "null"
  /\ widgets = 0
  /\ youtubeTickRef = FALSE
  /\ tickers = 0
  /\ nativeListeners = FALSE
  /\ staleThen = FALSE
  /\ staleWidgets = FALSE
  /\ staleTickers = FALSE
  /\ staleListeners = FALSE
  /\ isReady = FALSE
  /\ isYouTubeReady = FALSE
  /\ videoError = FALSE
  /\ isPlaying = TRUE
  /\ currentTime = 0
  /\ duration = 0
  /\ volume = 100
  /\ isMuted = FALSE
  /\ skipAnim = "none"
  /\ backendTime = 0
  /\ backendDuration = 0
  /\ backendPlaying = FALSE
  /\ backendVolume = 100
  /\ backendMuted = FALSE
  /\ pulseTimers = 0
  /\ stalePulse = FALSE
  /\ lastTeardown = NoTeardown
  /\ clock = StartClock
  /\ lastTapAtRef = 0
  /\ lastTapSideRef = "null"
  /\ dblClickDue = "none"
  /\ tapHist = NoTaps

\* opening, switching and closing videos, the mode switch, and the events
\* that create and release the resources of the mounted instance
MountNext ==
  \/ OpenVideo
  \/ CloseVideo
  \/ MinimizePlayer
  \/ RestorePlayer
  \/ ToggleYouTubePlayerMode
  \/ LoaderResolves
  \/ LoaderRejects
  \/ StaleLoaderSettles
  \/ WidgetMetadata
  \/ WidgetReady
  \/ PollTick
  \/ NativeLoadedMetadata
  \/ SkipButton
  \/ PulseFires
  \/ StalePulseFires
  \/ BackendAdvance

(* ------------------------------------------------------------------ *)
(* loadYouTubeIframeApi                                                 *)
(* ------------------------------------------------------------------ *)

Callers == 1..NumCallers

\* value of a caller's promise slot: nothing yet / Promise.resolve(window.YT)
NoPromise == 0
Immediate == -1

\* closure state of one promise executor run
NewAttempt == [settled |-> FALSE, outcome |-> "pending", timeoutLive |-> TRUE]

\* window.YT?.Player
PlayerInterfacePresent == ytState = "ready"

\* a loader that never reuses the shared promise
HasSharedPromise_Never == FALSE

\* line 79: an in-flight (or already resolved) shared promise exists
HasSharedPromise == youtubeApiPromise # 0

\* a loader that injects without looking for an existing element
NoExistingScript_Always == TRUE

\* lines 120-121: !document.getElementById(scriptId)
NoExistingScript == scriptTags = 0

\* resolveReady(window.YT) in the closure of attempt a
resolveReady(att, a) ==
  IF att[a].settled THEN att
  ELSE IF ~PlayerInterfacePresent THEN att
  ELSE [att EXCEPT ![a] = [settled |-> TRUE, outcome |-> "resolved", timeoutLive |-> FALSE]]

\* a rejectLoad that leaves youtubeApiPromise pointing at the rejected promise
rejectLoad_KeepShared(att, shared, a) ==
  IF att[a].settled THEN [att |-> att, shared |-> shared]
  ELSE [att |-> [att EXCEPT ![a] = [settled |-> TRUE, outcome |-> "rejected", timeoutLive |-> FALSE]],
        shared |-> shared]

\* rejectLoad(error) in the closure of attempt a: the attempts and the shared promise after it
rejectLoad(att, shared, a) ==
  IF att[a].settled THEN [att |-> att, shared |-> shared]
  ELSE [att |-> [att EXCEPT ![a] = [settled |-> TRUE, outcome |-> "rejected", timeoutLive |-> FALSE]],
        shared |-> 0]

\* tryResolveReady() || rejectLoad(...), as the ready callback and the timeout do
resolveOrReject(att, shared, a) ==
  IF PlayerInterfacePresent
    THEN [att |-> resolveReady(att, a), shared |-> shared]
    ELSE rejectLoad(att, shared, a)

\* window.onYouTubeIframeAPIReady of the attempts in chain: previousReady first
RECURSIVE runReadyChain(_, _, _)
runReadyChain(att, shared, chain) ==
  IF chain = <<>> THEN [att |-> att, shared |-> shared]
  ELSE LET r == resolveOrReject(att, shared, Head(chain))
       IN runReadyChain(r.att, r.shared, Tail(chain))

\* one call of loadYouTubeIframeApi() by caller c
loadYouTubeIframeApi(c) ==
  IF PlayerInterfacePresent
    THEN /\ held' = [held EXCEPT ![c] = Immediate]
         /\ UNCHANGED <<youtubeApiPromise, attempts, readyChain, scriptTags,
                        scriptState, scriptOwner>>
  ELSE IF HasSharedPromise
    THEN /\ held' = [held EXCEPT ![c] = youtubeApiPromise]
         /\ UNCHANGED <<youtubeApiPromise, attempts, readyChain, scriptTags,
                        scriptState, scriptOwner>>
  ELSE LET a == Len(attempts) + 1 IN
         /\ attempts' = Append(attempts, NewAttempt)
         /\ readyChain' = Append(readyChain, a)
         /\ IF NoExistingScript
              THEN /\ scriptTags' = scriptTags + 1
                   /\ scriptState' = "loading"
                   /\ scriptOwner' = a
              ELSE UNCHANGED <<scriptTags, scriptState, scriptOwner>>
         /\ youtubeApiPromise' = a
         /\ held' = [held EXCEPT ![c] = a]

\* a component calls the loader
LoadCall ==
  \E c \in Callers :
    /\ PlayerInterfacePresent \/ HasSharedPromise \/ Len(attempts) < MaxAttempts
    /\ loadYouTubeIframeApi(c)
    /\ UNCHANGED <<ytState, readyPending, previousReadyRan>>
    /\ UNCHANGED <<playerVars, useCustomPlayerForYouTube, instanceVars, clock>>

\* the injected script has run: window.YT is defined, with or without Player
ApiScriptRuns ==
  /\ scriptState = "loading"
  /\ scriptState' = "loaded"
  /\ \E yt \in {"ready", "noPlayer"} : ytState' = yt
  /\ readyPending' = TRUE
  /\ UNCHANGED previousReadyRan
  /\ UNCHANGED <<youtubeApiPromise, attempts, readyChain, scriptTags, scriptOwner, held>>
  /\ UNCHANGED <<playerVars, useCustomPlayerForYouTube, instanceVars, clock>>

\* the callback the page had registered before the loader's first attempt
PagesOwnReady == 0

\* an installation that overwrites: only the last attempt's callback is left
ReadyHandlers_Overwrite(chain) ==
  IF chain = <<>> THEN <<PagesOwnReady>> ELSE <<chain[Len(chain)]>>

\* what a call of window.onYouTubeIframeAPIReady runs, in order: every
\* installation calls previousReady?.() first, then serves its own attempt
ReadyHandlers(chain) == <<PagesOwnReady>> \o chain

IsAttempt(h) == h # PagesOwnReady

\* the API invokes window.onYouTubeIframeAPIReady
ReadyCallback ==
  /\ readyPending
  /\ readyPending' = FALSE
  /\ LET handlers == ReadyHandlers(readyChain)
         r == runReadyChain(attempts, youtubeApiPromise, SelectSeq(handlers, IsAttempt))
     IN /\ attempts' = r.att
        /\ youtubeApiPromise' = r.shared
        /\ previousReadyRan' =
             (previousReadyRan \/ \E i \in DOMAIN handlers : handlers[i] = PagesOwnReady)
  /\ UNCHANGED <<ytState, readyChain, scriptTags, scriptState, scriptOwner, held>>
  /\ UNCHANGED <<playerVars, useCustomPlayerForYouTube, instanceVars, clock>>

\* script.onerror of the injected element
ScriptError ==
  /\ scriptState = "loading"
  /\ scriptState' = "failed"
  /\ LET r == rejectLoad(attempts, youtubeApiPromise, scriptOwner)
     IN /\ attempts' = r.att
        /\ youtubeApiPromise' = r.shared
  /\ UNCHANGED <<ytState, readyPending, previousReadyRan, readyChain, scriptTags, scriptOwner,
                 held>>
  /\ UNCHANGED <<playerVars, useCustomPlayerForYouTube, instanceVars, clock>>

\* the 10 s timeout of attempt a fires
LoadTimeout ==
  \E a \in DOMAIN attempts :
    /\ attempts[a].timeoutLive
    /\ LET fired == [attempts EXCEPT ![a].timeoutLive = FALSE]
           r == resolveOrReject(fired, youtubeApiPromise, a)
       IN /\ attempts' = r.att
          /\ youtubeApiPromise' = r.shared
    /\ UNCHANGED <<ytState, readyPending, previousReadyRan, readyChain, scriptTags, scriptState,
                   scriptOwner, held>>
    /\ UNCHANGED <<playerVars, useCustomPlayerForYouTube, instanceVars, clock>>

LoaderInit ==
  /\ ytState = "absent"
  /\ youtubeApiPromise = 0
  /\ attempts = <<>>
  /\ readyChain = <<>>
  /\ readyPending = FALSE
  /\ previousReadyRan = FALSE
  /\ scriptTags = 0
  /\ scriptState = "none"
  /\ scriptOwner = 0
  /\ held = [c \in Callers |-> NoPromise]

LoaderNext ==
  \/ LoadCall
  \/ ApiScriptRuns
  \/ ReadyCallback
  \/ ScriptError
  \/ LoadTimeout

(* ------------------------------------------------------------------ *)
(* Specifications                                                       *)
(* ------------------------------------------------------------------ *)

vars == <<playerVars, loaderVars, useCustomPlayerForYouTube, instanceVars, clock>>

Init == PlayerInit /\ LoaderInit /\ InstanceInit

Next == PlayerNext

\* the session and its countdown
Spec == Init /\ [][Next]_vars

\* the API loader and its environment
LoaderSpec == Init /\ [][LoaderNext]_vars

MountSpec == Init /\ [][MountNext]_vars

TransportSpec == Init /\ [][TransportNext]_vars

VolumeSpec == Init /\ [][VolumeNext]_vars

\* The failures of a mount: the loader's promise rejects, the widget reports an
\* error, the media element fires "error"; with the events that make it ready.
FaultNext ==
  \/ OpenVideo
  \/ MinimizePlayer
  \/ RestorePlayer
  \/ ToggleYouTubePlayerMode
  \/ LoaderResolves
  \/ LoaderRejects
  \/ StaleLoaderSettles
  \/ WidgetMetadata
  \/ WidgetReady
  \/ WidgetError
  \/ NativeLoadedMetadata
  \/ NativeCanPlay
  \/ NativeError

TapSpec == Init /\ [][TapNext]_vars

FaultSpec == Init /\ [][FaultNext]_vars

ControlSpec == Init /\ [][ControlNext]_vars

\* What the event loop guarantees: a settled promise runs its callbacks, the
\* widget and the element deliver their readiness and position events, the
\* poll interval fires, a playing backend plays on. Whether autoplay is
\* granted, and what the user does, is guaranteed by nothing.
SyncFairness ==
  /\ WF_vars(LoaderResolves)
  /\ WF_vars(WidgetMetadata)
  /\ WF_vars(WidgetReady)
  /\ WF_vars(PollTick)
  /\ WF_vars(NativeLoadedMetadata)
  /\ WF_vars(NativeTimeUpdateEvent)
  /\ WF_vars(BackendAdvance)

RangeSpec == Init /\ [][RangeNext]_vars

GestureSpec == Init /\ [][GestureNext]_vars

EndedSpec == Init /\ [][EndedNext]_vars

SyncSpec == Init /\ [][SyncNext]_vars /\ SyncFairness

TypeOK ==
  /\ currentVideo \in {Null, "A", "B", "C", "D"}
  /\ currentCategory \in {Null} \cup CategorySlugs
  /\ isPlayerOpen \in BOOLEAN /\ isMinimized \in BOOLEAN
  /\ listVisible \in BOOLEAN /\ showCountdown \in BOOLEAN
  /\ swipeStartY \in TouchYs \cup {NoTouch}
  /\ countdown \in 0..2 /\ countdownValueRef \in 0..2
  /\ countdownIntervalRef \in 0..MaxTimerId
  /\ liveIntervals \subseteq TimerIds
  /\ ytState \in {"absent", "noPlayer", "ready"}
  /\ previousReadyRan \in BOOLEAN
  /\ youtubeApiPromise \in 0..MaxAttempts
  /\ Len(attempts) <= MaxAttempts
  /\ scriptState \in {"none", "loading", "loaded", "failed"}
  /\ held \in [Callers -> {NoPromise, Immediate} \cup 1..MaxAttempts]
  /\ useCustomPlayerForYouTube \in BOOLEAN
  /\ loadPromise \in {"none", "pending", "settled"}
  /\ youtubePlayerRef \in {"null", "created", "ready"}
  /\ widgets \in 0..1 /\ tickers \in 0..1
  /\ youtubeTickRef \in BOOLEAN /\ nativeListeners \in BOOLEAN
  /\ isReady \in BOOLEAN /\ isYouTubeReady \in BOOLEAN /\ videoError \in BOOLEAN
  /\ isPlaying \in BOOLEAN /\ isMuted \in BOOLEAN
  /\ currentTime \in 0..VideoDuration /\ backendTime \in 0..VideoDuration
  /\ duration \in {0, VideoDuration, PositiveInfinity}
  /\ backendDuration \in {0, VideoDuration, PositiveInfinity}
  /\ volume \in 0..100 /\ backendVolume \in 0..100
  /\ skipAnim \in {"none", "fwd", "back"}
  /\ pulseTimers \in 0..MaxPulse
  /\ clock \in StartClock..(StartClock + MaxTicks * TapGap)
  /\ lastTapAtRef \in {0} \cup StartClock..(StartClock + MaxTicks * TapGap)
  /\ lastTapSideRef \in {"null"} \cup Sides
  /\ dblClickDue \in {"none"} \cup Sides

(* ------------------------------------------------------------------ *)
(* Properties                                                           *)
(* ------------------------------------------------------------------ *)

\* C1: in every reachable session state, isMinimized = true implies
\* isPlayerOpen = true.
C1_MinimizedImpliesOpen == isMinimized => isPlayerOpen

\* C2: when openVideo is called while a countdown is active, a countdown
\* tick that follows it does not replace the video that was opened.
C2_OpenVideoNotOverridden ==
  [][(hist.op = "openVideo" /\ hist.wasActive /\ CountdownTick)
       => currentVideo' = currentVideo]_vars

\* C3: closeVideo during an active countdown clears the countdown timer, and
\* a tick after the close leaves currentVideo null.
C3_CloseCancelsCountdown ==
  [][/\ (CloseVideo /\ showCountdown) => liveIntervals' = {}
     /\ (hist.op = "closeVideo" /\ CountdownTick) => currentVideo' = Null]_vars

\* C4: the ended signal with a non-empty related list makes relatedVideos[0]
\* and the current category pending and starts the countdown at 2 with a live
\* timer; the first tick only decrements to 1; the second tick selects the
\* pending video and category and clears the countdown state.
C4_AutoAdvance ==
  [][/\ (HandleEnded /\ Len(relatedVideos) > 0)
          => /\ nextVideoRef' = [video |-> relatedVideos[1], category |-> currentCategory]
             /\ showCountdown' /\ countdown' = 2 /\ countdownValueRef' = 2
             /\ Cardinality(liveIntervals') = 1
             /\ UNCHANGED sessionVars
     /\ (CountdownTick /\ countdownValueRef = 2)
          => /\ countdownValueRef' = 1 /\ countdown' = 1
             /\ UNCHANGED <<sessionVars, nextVideoRef, showCountdown, liveIntervals>>
     /\ (CountdownTick /\ countdownValueRef = 1)
          => /\ nextVideoRef # NoNext
             /\ currentVideo' = nextVideoRef.video
             /\ currentCategory' = nextVideoRef.category
             /\ ~showCountdown' /\ nextVideoRef' = NoNext
             /\ countdown' = 2 /\ countdownValueRef' = 2
             /\ liveIntervals' = {} /\ countdownIntervalRef' = 0
     /\ liveIntervals # {} => countdownValueRef \in {1, 2}]_vars

\* C4 witness: B of [A,B,C] ended and the countdown expired into A
C4_Witness ==
  /\ hist.op = "tickExpire" /\ hist.prevVideo = "B"
  /\ currentVideo = "A" /\ currentCategory = "c1"
  /\ ~showCountdown /\ nextVideoRef = NoNext /\ countdown = 2

\* C5: cancelCountdown clears the interval timer and the pending-next
\* reference and leaves the session unchanged; a countdown tick only ever
\* happens while a countdown is active, so none follows a cancel.
C5_CancelClears ==
  [][/\ CancelCountdown
          => /\ liveIntervals' = {} /\ countdownIntervalRef' = 0
             /\ nextVideoRef' = NoNext /\ ~showCountdown'
             /\ UNCHANGED sessionVars
     /\ hist.op = "cancelCountdown" => ~CountdownTick
     /\ CountdownTick => showCountdown]_vars

\* C5 witness: a countdown for a pending video was cancelled
C5_Witness ==
  /\ hist.op = "cancelCountdown" /\ hist.wasActive
  /\ currentVideo = hist.prevVideo /\ currentVideo # Null
  /\ liveIntervals = {} /\ nextVideoRef = NoNext

\* C6: a related-list selection cancels the countdown and makes the selected
\* video current in the same category; no tick can follow it.
C6_RelatedSelectCancels ==
  [][/\ \A video \in SeqRange(relatedVideos) :
          (PlayerRendered /\ ~isMinimized /\ listVisible /\ handleRelatedSelect(video))
            => /\ currentVideo' = video /\ currentCategory' = currentCategory
               /\ liveIntervals' = {} /\ nextVideoRef' = NoNext /\ ~showCountdown'
     /\ hist.op = "handleRelatedSelect" => ~CountdownTick]_vars

\* C6 witness: C was selected from the list while a countdown was active on B
C6_Witness ==
  /\ hist.op = "handleRelatedSelect" /\ hist.wasActive /\ hist.prevVideo = "B"
  /\ currentVideo = "C" /\ liveIntervals = {}

\* C7: at most one countdown interval is live before and after every step,
\* the live one is the one countdownIntervalRef holds, and the tick that
\* expires the countdown leaves no interval live.
C7_SingleTimer ==
  [][/\ Cardinality(liveIntervals) <= 1 /\ Cardinality(liveIntervals') <= 1
     /\ liveIntervals' \subseteq {countdownIntervalRef'}
     /\ (CountdownTick /\ ExpiresAt(countdownValueRef - 1)) => liveIntervals' = {}]_vars

\* C7 witness: a second ended signal arrived while a countdown was active
C7_Witness ==
  /\ hist.op = "handleEnded" /\ hist.wasActive
  /\ showCountdown /\ Cardinality(liveIntervals) = 1

HeldPending(c) == held[c] >= 1 /\ attempts[held[c]].outcome = "pending"

\* C8: a loader call made while a caller's promise is still pending and the
\* API is not ready returns that same promise and neither injects a script
\* nor starts another attempt; at most one attempt is pending at a time.
C8_SharedInFlight ==
  [][/\ \A c, d \in Callers :
          (loadYouTubeIframeApi(c) /\ ~PlayerInterfacePresent /\ HeldPending(d))
            => /\ held'[c] = held[d]
               /\ scriptTags' = scriptTags /\ attempts' = attempts
     /\ \A a, b \in DOMAIN attempts :
          (attempts[a].outcome = "pending" /\ attempts[b].outcome = "pending") => a = b]_vars

\* C8 witness: two callers share one promise, now resolved, after one injection
C8_Witness ==
  /\ held[1] >= 1 /\ held[2] = held[1]
  /\ attempts[held[1]].outcome = "resolved"
  /\ scriptTags = 1

\* C9: the document never holds more than one injected script element.
C9_AtMostOneScript == scriptTags <= 1

\* C9 witness: a retry after a failure and a call with the handle present
C9_Witness ==
  /\ Len(attempts) >= 2 /\ attempts[1].outcome = "rejected"
  /\ \E c \in Callers : held[c] = Immediate
  /\ scriptTags = 1

\* C10: a timeout that finds the API not ready, or a script error, rejects
\* the attempt's promise and clears the shared promise; the shared promise is
\* never a rejected one, and the next call with nothing shared starts a fresh
\* pending attempt with its own timeout.
C10_RejectClearsShared ==
  [][/\ \A a \in DOMAIN attempts :
          (attempts[a].timeoutLive /\ ~attempts'[a].timeoutLive /\ ~PlayerInterfacePresent)
            => attempts'[a].outcome = "rejected" /\ youtubeApiPromise' = 0
     /\ (ScriptError /\ ~attempts[scriptOwner].settled)
          => attempts'[scriptOwner].outcome = "rejected" /\ youtubeApiPromise' = 0
     /\ youtubeApiPromise' # 0 => attempts'[youtubeApiPromise'].outcome # "rejected"
     /\ \A c \in Callers :
          (loadYouTubeIframeApi(c) /\ ~PlayerInterfacePresent /\ youtubeApiPromise = 0)
            => /\ held'[c] = Len(attempts) + 1
               /\ attempts'[held'[c]] = NewAttempt
               /\ youtubeApiPromise' = held'[c]]_vars

\* C10 witness: the first attempt was rejected and a caller holds a fresh one
C10_Witness ==
  /\ Len(attempts) >= 2 /\ attempts[1].outcome = "rejected"
  /\ attempts[2].outcome = "pending" /\ attempts[2].timeoutLive
  /\ \E c \in Callers : held[c] = 2

\* C17: openVideo can be called in every state, and a call with (video,
\* category) leaves exactly currentVideo = video, currentCategory = category,
\* isPlayerOpen = true and isMinimized = false.
C17_OpenVideoAlways ==
  [][/\ ENABLED OpenVideo
     /\ \A vc \in FeedCards :
          (OpenVideo /\ openVideo(vc[1], vc[2]))
            => /\ currentVideo' = vc[1] /\ currentCategory' = vc[2]
               /\ isPlayerOpen' /\ ~isMinimized']_vars

\* C17 witness: another video was opened over the current one
C17_Witness ==
  /\ hist.op = "openVideo" /\ hist.prevVideo # Null /\ hist.prevVideo # currentVideo
  /\ isPlayerOpen /\ ~isMinimized /\ currentVideo # Null

\* C19: closeMiniPlayer and closeVideo relate the same pairs of session
\* states: every step is a closeVideo step exactly when it is a
\* closeMiniPlayer step.
C19_CloseMiniEquivalent == [][closeVideo <=> closeMiniPlayer]_vars

\* C19 witness: closeMiniPlayer emptied a session that held a video
C19_Witness ==
  /\ hist.op = "closeMiniPlayer" /\ hist.prevVideo # Null
  /\ currentVideo = Null /\ currentCategory = Null /\ ~isPlayerOpen /\ ~isMinimized

\* C20: minimizePlayer and restorePlayer leave currentVideo, currentCategory
\* and isPlayerOpen unchanged, and with isPlayerOpen false they leave the
\* whole session state unchanged.
C20_MinimizeOnlyWhenOpen ==
  [][(MinimizePlayer \/ RestorePlayer)
       => /\ UNCHANGED <<currentVideo, currentCategory, isPlayerOpen>>
          /\ ~isPlayerOpen => UNCHANGED sessionVars]_vars

\* C11: at every instant the mounted player has at most one adapter (one
\* widget or one set of native listeners) and at most one live poll interval,
\* no torn-down instance keeps a widget, a poll interval or listeners, and at
\* a switch of video or mode the new instance starts with no widget and no
\* poll interval.
C11_OneAdapterOneTimer ==
  [][/\ widgets' + (IF nativeListeners' THEN 1 ELSE 0) <= 1
     /\ tickers' <= 1
     /\ ~staleWidgets' /\ ~staleTickers' /\ ~staleListeners'
     /\ (MountKey' # MountKey)
          => (widgets' = 0 /\ tickers' = 0 /\ youtubePlayerRef' = "null")]_vars

\* C11 witness: an instance with a ready widget and a live poll interval was
\* replaced, and the instance that replaced it has its own widget and interval
C11_Witness ==
  /\ lastTeardown.widget /\ lastTeardown.ticker
  /\ Mounted /\ widgets = 1 /\ tickers = 1 /\ youtubePlayerRef = "ready"

\* C12: after an instance is torn down nothing of it is left that can fire:
\* no poll interval, no native listener, no widget and no other timer of it.
C12_NothingFiresAfterTeardown ==
  ~staleTickers /\ ~staleListeners /\ ~staleWidgets /\ ~stalePulse

\* C18: closeVideo resets the session to empty and leaves no live adapter:
\* no widget, no poll interval and no listeners, of this or an earlier instance.
C18_CloseReleasesAdapter ==
  [][CloseVideo
       => /\ currentVideo' = Null /\ currentCategory' = Null
          /\ ~isPlayerOpen' /\ ~isMinimized'
          /\ ~Mounted'
          /\ widgets' = 0 /\ tickers' = 0 /\ ~nativeListeners'
          /\ youtubePlayerRef' = "null" /\ ~youtubeTickRef'
          /\ ~staleWidgets' /\ ~staleTickers' /\ ~staleListeners']_vars

\* C18 witness: closeVideo ran while a ready widget was polling
C18_Witness ==
  /\ hist.op = "closeVideo" /\ hist.prevVideo # Null
  /\ lastTeardown.widget /\ lastTeardown.ticker
  /\ currentVideo = Null /\ widgets = 0 /\ tickers = 0

\* C13: on a ready controllable adapter whose video has the known length
\* D > 0 and is at position t, skip(d) moves the position to t + d clamped
\* to 0..D.
C13_SkipClamps ==
  [][(/\ SkipButton
      /\ effectiveReady /\ isControllable
      /\ duration > 0 /\ backendDuration > 0)
       => \A d \in SkipDeltas :
            skip(d) => backendTime' = Max2(0, Min2(backendDuration, backendTime + d))]_vars

\* C14: on a ready controllable adapter with known duration D > 0, seeking to
\* percent p moves the position to p/100 * D (0 for p = 0, D for p = 100),
\* and seeking to the percent of the current position leaves it where it is.
C14_SeekPercent ==
  [][(SeekSlider /\ backendDuration > 0 /\ duration = backendDuration)
       => \A p \in Percents :
            seek(p)
              => /\ 100 * backendTime' = p * backendDuration
                 /\ (p = 0 => backendTime' = 0)
                 /\ (p = 100 => backendTime' = backendDuration)
                 /\ (p * backendDuration = 100 * backendTime
                       => backendTime' = backendTime)]_vars

\* C14 witness: a native video whose adapter last saw it at its end stands
\* at a quarter of its length; from there a skip only reaches the middle or
\* the end, so a seek to 25 percent has acted
C14_Witness ==
  /\ isNativeVideo /\ effectiveReady /\ duration = VideoDuration
  /\ currentTime = VideoDuration
  /\ 100 * backendTime = 25 * backendDuration

\* C16: volume and isMuted are independent: a change of the volume (to 0 as
\* well) leaves isMuted as it was, a mute toggle leaves the volume as it was,
\* and a change of the volume while muted leaves adapter and backend muted.
C16_VolumeMuteIndependent ==
  [][/\ VolumeSlider => isMuted' = isMuted
     /\ MuteButton => volume' = volume
     /\ (VolumeSlider /\ isMuted) => (isMuted' /\ backendMuted')]_vars

\* C16 witness: on a muted widget the volume was set to 0 (the widget still
\* holds the volume it had), the adapter and the widget are still muted
C16_Witness ==
  /\ useYouTubeCustomPlayer /\ isYouTubeReady
  /\ isMuted /\ backendMuted
  /\ volume = 0 /\ backendVolume # 0

\* C15: of two taps less than 320 ms apart, the second triggers the skip of
\* its half exactly once when both are on the same half, and no skip when
\* they are on different halves.
C15_DoubleTapSkipsOnce ==
  (tapHist.prevSide # "null" /\ tapHist.lastAt - tapHist.prevAt < 320)
    => IF tapHist.lastSide = tapHist.prevSide
         THEN tapHist.skips = <<DeltaOf(tapHist.lastSide)>>
         ELSE tapHist.skips = <<>>

\* C22: in every reachable session state currentVideo is null exactly when
\* currentCategory is null.
C22_VideoIffCategory == (currentVideo = Null) <=> (currentCategory = Null)

\* C22 witness: an auto-advance made another video of the category current
C22_Witness ==
  /\ hist.op = "tickExpire" /\ hist.prevVideo # Null
  /\ currentVideo # Null /\ currentVideo # hist.prevVideo /\ currentCategory # Null

\* C23: selectVideo(video, category) makes video and category current and
\* leaves isPlayerOpen and isMinimized as they were, when called directly and
\* when called by the expiring countdown tick (the auto-advance), also while
\* the player is minimized.
C23_SelectVideoFrame ==
  [][/\ SelectVideo
          => /\ UNCHANGED <<isPlayerOpen, isMinimized>>
             /\ \A vc \in FeedCards :
                  selectVideo(vc[1], vc[2])
                    => (currentVideo' = vc[1] /\ currentCategory' = vc[2])
     /\ (CountdownTick /\ ExpiresAt(countdownValueRef - 1) /\ nextVideoRef # NoNext)
          => /\ UNCHANGED <<isPlayerOpen, isMinimized>>
             /\ currentVideo' = nextVideoRef.video
             /\ currentCategory' = nextVideoRef.category]_vars

\* C23 witness: the auto-advance fired while the player was minimized
C23_Witness ==
  /\ hist.op = "tickExpire" /\ hist.prevVideo # Null /\ currentVideo # hist.prevVideo
  /\ isMinimized /\ isPlayerOpen

\* position of a slug in a sequence of distinct slugs
C27_IndexIn(seq, slug) == CHOOSE i \in DOMAIN seq : seq[i] = slug

\* C27: relatedVideos is empty when no category is current; otherwise it
\* holds exactly the slugs of the current category other than the current
\* video, each once, in the order of the category.
C27_RelatedVideos ==
  IF currentCategory = Null
    THEN relatedVideos = <<>>
    ELSE LET contents == CategoryContents[currentCategory] IN
         /\ SeqRange(relatedVideos) = SeqRange(contents) \ {currentVideo}
         /\ Len(relatedVideos) = Cardinality(SeqRange(contents) \ {currentVideo})
         /\ \A i, j \in DOMAIN relatedVideos :
              i < j => C27_IndexIn(contents, relatedVideos[i])
                         < C27_IndexIn(contents, relatedVideos[j])

\* C27 witness: the middle video of a category of three is current
C27_Witness ==
  /\ currentCategory = "c1" /\ currentVideo = "B"
  /\ relatedVideos = <<"A", "C">>

\* C21: minimizing or restoring the player leaves the mounted adapter alone:
\* the same backend handle and the same poll timer stay live, nothing is torn
\* down or created, and isPlaying, currentTime and every other piece of the
\* instance's state keep their values.
C21_MinimizeKeepsAdapter ==
  [][(MinimizePlayer \/ RestorePlayer) =>
       /\ UNCHANGED <<mountVars, adapterVars, backendVars, pulseVars>>
       /\ UNCHANGED lastTeardown
       /\ MountKey' = MountKey]_vars

C21_Witness ==
  /\ hist.op = "minimizePlayer" /\ isMinimized
  /\ youtubePlayerRef = "ready" /\ widgets = 1 /\ tickers = 1
  /\ youtubeTickRef /\ isYouTubeReady

\* C24: on a mount with an adapter exactly one of the three presentations is
\* rendered: the spinner alone while not ready and without error, the error
\* panel alone (no controls, full or mini) while an error is present, and the
\* controls alone otherwise.
C24_OnePresentation ==
  (Mounted /\ isControllable) =>
    LET controls == ControlsShown \/ MiniControlsShown IN
      IF videoError THEN ErrorPanelShown /\ ~SpinnerShown /\ ~controls
      ELSE IF ~effectiveReady THEN SpinnerShown /\ ~ErrorPanelShown /\ ~controls
      ELSE controls /\ ~SpinnerShown /\ ~ErrorPanelShown

\* C26: a rejected load, a widget error and a media element error each set the
\* mount's error state and leave the session (current video and category, open,
\* minimized) and the countdown exactly as they were.
C26_ErrorsStayInMount ==
  [][(LoaderRejects \/ WidgetError \/ NativeError) =>
       /\ videoError'
       /\ UNCHANGED <<sessionVars, listVars, countdownVars, useCustomPlayerForYouTube>>
       /\ MountKey' = MountKey]_vars

C26_Witness ==
  /\ videoError /\ youtubePlayerRef = "ready" /\ isYouTubeReady
  /\ isPlayerOpen /\ isMinimized /\ currentVideo # Null /\ currentCategory # Null

\* some call of togglePlay, skip or seek in the current state would change
\* something
TransportCallActs ==
  \/ ENABLED (togglePlay /\ <<isPlaying, backendPlaying, backendTime>>' #
                             <<isPlaying, backendPlaying, backendTime>>)
  \/ \E delta \in SkipDeltas :
       ENABLED (skip(delta) /\ <<backendTime, currentTime, skipAnim, pulseTimers>>' #
                               <<backendTime, currentTime, skipAnim, pulseTimers>>)
  \/ \E pct \in Percents :
       ENABLED (seek(pct) /\ <<backendTime, currentTime>>' # <<backendTime, currentTime>>)

\* C25: in the raw-embed mode (YouTube media with the custom player off) there
\* is no adapter (no widget, no poll timer, no element listeners, no load in
\* flight), no controls are rendered, no call of togglePlay, skip or seek would
\* change anything, and a double click changes nothing of the instance.
C25_RawEmbedInert ==
  [][(Mounted /\ useYouTubeNativePlayer) =>
       /\ youtubePlayerRef = "null" /\ widgets = 0 /\ tickers = 0
       /\ ~youtubeTickRef /\ ~nativeListeners /\ loadPromise = "none"
       /\ ~ControlsShown /\ ~MiniControlsShown
       /\ ~ENABLED TogglePlayButton
       /\ ~TransportCallActs
       /\ DoubleClick => UNCHANGED <<mountVars, adapterVars, backendVars, pulseVars>>]_vars

C25_Witness ==
  /\ hist.op = "doubleClick" /\ Mounted /\ useYouTubeNativePlayer
  /\ hist.prevVideo = currentVideo /\ skipAnim = "none" /\ isPlaying

\* C28: while the adapter is not ready, not controllable or has duration 0, no
\* call of skip or seek changes the position (the adapter's or the backend's),
\* the skip pulse or its timer, the seek slider cannot fire, and a double click
\* leaves the whole instance, its error state included, as it was.
C28_SkipSeekNoOp ==
  [][(Mounted /\ (~effectiveReady \/ ~isControllable \/ duration = 0)) =>
       /\ \A delta \in SkipDeltas :
            ~ENABLED (skip(delta) /\ <<backendTime, currentTime, skipAnim, pulseTimers>>' #
                                     <<backendTime, currentTime, skipAnim, pulseTimers>>)
       /\ \A pct \in Percents :
            ~ENABLED (seek(pct) /\ <<backendTime, currentTime>>' # <<backendTime, currentTime>>)
       /\ ~ENABLED SeekSlider
       /\ DoubleClick => UNCHANGED <<mountVars, adapterVars, backendVars, pulseVars>>]_vars

C28_Witness ==
  /\ hist.op = "doubleClick" /\ Mounted /\ useYouTubeCustomPlayer
  /\ isYouTubeReady /\ youtubePlayerRef = "ready" /\ duration = 0
  /\ skipAnim = "none" /\ pulseTimers = 0 /\ ~videoError

\* C29: on a ready controllable adapter a press of the play/pause button
\* inverts isPlaying and leaves the backend in the new state: from true to
\* false with the backend paused, from false to true with the backend playing,
\* whatever the backend was doing.
C29_TogglePlayInverts ==
  [][(TogglePlayButton /\ effectiveReady) =>
       /\ isPlaying' = ~isPlaying
       /\ backendPlaying' = isPlaying']_vars

\* the mounts an adapter can belong to
C30_Keys == {<<vc[1], custom>> : vc \in FeedCards, custom \in BOOLEAN}

\* C30: once one mounted adapter's backend keeps one play/pause state for good,
\* the adapter's isPlaying comes to equal that state and stays equal.
C30_PlayingEventuallyConsistent ==
  \A k \in C30_Keys : \A b \in BOOLEAN :
    <>[](MountKey = k /\ isControllable /\ backendPlaying = b) => <>[](isPlaying = b)

\* C31: whenever the custom-mode widget is ready, from its ready callback on
\* and after every change of volume or isMuted, the widget's mute flag equals
\* isMuted and, unless muted, the widget's volume equals the adapter's volume
\* in percent.
C31_WidgetVolumeInSync ==
  (Mounted /\ useYouTubeCustomPlayer /\ youtubePlayerRef = "ready" /\ isYouTubeReady) =>
    /\ backendMuted = isMuted
    /\ ~isMuted => backendVolume = volume

C31_Witness ==
  /\ Mounted /\ useYouTubeCustomPlayer /\ youtubePlayerRef = "ready" /\ isYouTubeReady
  /\ ~isMuted /\ ~backendMuted /\ volume = 50 /\ backendVolume = 50

\* C32: the widget's poll timer is live only on a mounted custom-mode instance
\* whose widget is ready, there is at most one and the ref holds it, and none
\* survives a teardown; the ready callback leaves exactly one live timer; each
\* tick copies the widget's current time and duration into the adapter state.
C32_PollTimerLifetime ==
  /\ [](/\ tickers > 0 => (Mounted /\ useYouTubeCustomPlayer /\ youtubePlayerRef = "ready"
                             /\ isYouTubeReady)
        /\ tickers \in {0, 1}
        /\ youtubeTickRef <=> tickers = 1
        /\ ~staleTickers)
  /\ [][/\ WidgetReady => (tickers' = 1 /\ youtubeTickRef')
        /\ PollTick => (currentTime' = backendTime /\ duration' = backendDuration)]_vars

C32_Witness ==
  /\ lastTeardown.ticker /\ ~staleTickers
  /\ tickers = 1 /\ youtubeTickRef /\ youtubePlayerRef = "ready"
  /\ backendDuration = VideoDuration /\ duration = backendDuration
  /\ currentTime = backendTime /\ backendTime > 0

\* C33: a firing of the global ready callback also invokes the callback that
\* was registered before the loader installed its own, however many attempts
\* have installed theirs since, and when the Player interface is present every
\* attempt still pending is resolved by that same firing.
C33_ReadyCallbackChained ==
  [][ReadyCallback =>
       /\ previousReadyRan'
       /\ PlayerInterfacePresent =>
            \A a \in DOMAIN attempts :
              attempts[a].outcome = "pending" => attempts'[a].outcome = "resolved"]_vars

C33_Witness ==
  /\ previousReadyRan /\ ~readyPending
  /\ Len(attempts) >= 2 /\ Len(readyChain) >= 2
  /\ attempts[1].outcome = "rejected"
  /\ attempts[Len(attempts)].outcome = "resolved"

\* C34: a touch tap that completes no pair (no remembered tap on its half less
\* than 320 ms ago) skips nothing and is remembered with its half and its
\* time; a tap that completes a pair clears the memory; so the tap after a
\* completed pair finds an empty memory, skips nothing and is remembered as
\* the first tap of a new pair.
C34_TapMemory ==
  [][TouchEnd =>
       LET side == tapHist'.lastSide
           completes == clock - lastTapAtRef < 320 /\ lastTapSideRef = side
       IN
         /\ completes => (lastTapAtRef' = 0 /\ lastTapSideRef' = "null")
         /\ ~completes =>
              /\ UNCHANGED <<backendTime, currentTime, skipAnim, pulseTimers>>
              /\ lastTapAtRef' = clock /\ lastTapSideRef' = side
         /\ (lastTapSideRef = "null" /\ tapHist.lastSide # "null") =>
              /\ UNCHANGED <<backendTime, currentTime, skipAnim, pulseTimers>>
              /\ lastTapAtRef' = clock /\ lastTapSideRef' = side]_vars

\* the third of three quick taps on one half: the second completed the pair,
\* the third is remembered and has skipped nothing
C34_Witness ==
  /\ tapHist.prevSide = "null" /\ tapHist.lastSide = "left"
  /\ tapHist.lastAt - tapHist.prevAt < 320 /\ tapHist.prevAt > 0
  /\ tapHist.skips = <<>>
  /\ lastTapSideRef = "left" /\ lastTapAtRef = tapHist.lastAt
  /\ isYouTubeReady /\ duration > 0

\* C35: in every state of a mounted adapter, native or widget, duration is a
\* finite number >= 0, currentTime is a finite number >= 0 and volume lies in
\* [0, 1] (0..100 in percent).
C35_FiniteRanges ==
  (Mounted /\ isControllable) =>
    /\ isFinite(duration) /\ duration >= 0
    /\ isFinite(currentTime) /\ currentTime >= 0
    /\ volume >= 0 /\ volume <= 100

C36_Abs(x) == IF x < 0 THEN -x ELSE x

\* a wheel event of at most 60 units leaves the related list as it was
C36_WheelWithin60 ==
  [][ \A deltaY \in WheelDeltas :
        (WheelRevealBy(deltaY) /\ C36_Abs(deltaY) <= 60) => listVisible' = listVisible ]_vars

\* a swipe of at most 60 units leaves the related list as it was
C36_SwipeWithin60 ==
  [][ \A clientY \in TouchYs :
        (SwipeEndAt(clientY) /\ swipeStartY # NoTouch /\ C36_Abs(clientY - swipeStartY) <= 60)
          => listVisible' = listVisible ]_vars

\* no wheel or swipe gesture on the minimized player changes the related list
C36_MinimizedInert ==
  [][ ((WheelReveal \/ SwipeStart \/ SwipeEnd) /\ isMinimized)
        => listVisible' = listVisible ]_vars

\* C36: on the full-page player a wheel event or a swipe whose vertical
\* displacement is at most 60 units leaves the related list's visibility as it
\* was, and while the player is minimized no wheel or swipe gesture changes it
C36_SmallGestureKeepsList ==
  C36_WheelWithin60 /\ C36_SwipeWithin60 /\ C36_MinimizedInert

\* C37: isOpen is true exactly when a video is current, in every state the
\* session operations and the countdown ticks can reach
C37_OpenIffCurrentVideo == isPlayerOpen <=> (currentVideo # Null)

\* C38: while the countdown is active the pending-next reference is set and
\* the remaining value is 1 or 2; while it is inactive the pending-next
\* reference is null and no countdown interval is live
C38_CountdownShape ==
  /\ showCountdown =>
        /\ nextVideoRef # NoNext
        /\ countdown \in {1, 2}
        /\ countdownValueRef \in {1, 2}
  /\ ~showCountdown =>
        /\ nextVideoRef = NoNext
        /\ countdownIntervalRef = 0
        /\ liveIntervals = {}

\* the countdown has been ticked down to 1 and is still running
C38_Witness ==
  /\ showCountdown /\ hist.op = "tick" /\ countdown = 1
  /\ nextVideoRef # NoNext /\ liveIntervals # {}

\* the mounted <video> element delivers the ended signal to the session
C39_EndedDelivered == (NativeTimeUpdate /\ NativeElementEnded) \/ NativeEnded

\* C39: however often the ended signal of one playback is delivered (by the
\* time-update handler and by the ended handler), the session advances at
\* most once for it, and to relatedVideos[0] of the video that ended: every
\* delivery leaves relatedVideos[0] pending on a single interval, a delivery
\* during the countdown starts no further interval, and the tick that advances
\* goes to the pending video, leaves nothing pending or live and mounts a
\* playback that has not ended
C39_OneAdvancePerEnded ==
  /\ [](Cardinality(liveIntervals) <= 1)
  /\ [][/\ (C39_EndedDelivered /\ Len(relatedVideos) > 0)
            => /\ nextVideoRef' = [video |-> relatedVideos[1], category |-> currentCategory]
               /\ showCountdown' /\ Cardinality(liveIntervals') = 1
               /\ showCountdown => liveIntervals' = liveIntervals
               /\ UNCHANGED sessionVars
        /\ (CountdownTick /\ currentVideo' # currentVideo)
            => /\ currentVideo' = nextVideoRef.video
               /\ currentCategory' = nextVideoRef.category
               /\ nextVideoRef' = NoNext /\ liveIntervals' = {} /\ ~showCountdown'
               /\ ~staleListeners' /\ ~NativeElementEnded']_vars

\* C39 witness: the element of A is at its end, the time-update handler has
\* seen it there and the ended handler has run, and one countdown to B is live
C39_Witness ==
  /\ currentVideo = "A" /\ nativeListeners /\ NativeElementEnded
  /\ currentTime = backendDuration /\ ~backendPlaying /\ ~isPlaying
  /\ showCountdown /\ nextVideoRef.video = relatedVideos[1]
  /\ Cardinality(liveIntervals) = 1

\* C40: when the loader promise settles for a mount that was torn down while
\* the script load was in flight, no widget is created, no poll timer is
\* started, and the mount that replaced it keeps its refs, its adapter state
\* and its backend as they were
C40_StaleSettleInert ==
  /\ [](~staleWidgets /\ ~staleTickers)
  /\ [][StaleLoaderSettles
          => /\ ~staleWidgets' /\ ~staleTickers'
             /\ widgets' = widgets /\ tickers' = tickers
             /\ youtubePlayerRef' = youtubePlayerRef /\ youtubeTickRef' = youtubeTickRef
             /\ loadPromise' = loadPromise
             /\ UNCHANGED <<adapterVars, backendVars, sessionVars>>]_vars

\* C40 witness: the last teardown found the load in flight, that load has
\* since settled, and the mount that replaced it is still waiting for its own
C40_Witness ==
  /\ lastTeardown.inFlight /\ ~staleThen
  /\ Mounted /\ useYouTubeCustomPlayer /\ loadPromise = "pending"
  /\ youtubePlayerRef = "null" /\ widgets = 0 /\ tickers = 0

====
